---- MODULE Spec2Model ----
(***************************************************************************)
(* A model of the rosetta interface-description compiler:                  *)
(*   - the structured-document parser and validator (IDLParser) of         *)
(*     idl/rosetta_idl_parser.py,                                          *)
(*   - the class-registration writer (_write_class_registration and        *)
(*     _generate_method_pointer) of the same file,                         *)
(*   - the class-block parser of the DSL parser, ild/ild_parser.py.        *)
(*                                                                         *)
(* Strings of the program are TLA+ strings; an Optional value is a         *)
(* sequence of length 0 (None) or 1.                                       *)
(***************************************************************************)
EXTENDS Integers, Sequences, FiniteSets, TLC

VARIABLES
    file,       \* the input of a parse: does the file exist, does it load, its document
    errors,     \* IDLParser.errors
    warnings,   \* IDLParser.warnings
    idl,        \* the InterfaceDefinition last returned by a parse (Optional)
    held,       \* the definition the caller holds: the last one a parse gave (Optional)
    ret,        \* the value returned by the last call of validate / parse_idl
    op,         \* the last operation that ran
    calls,      \* number of validate calls made on this parser
    lines,        \* ILDParser.lines: the comment-stripped, non-blank lines
    current_line, \* ILDParser.current_line (0-based cursor)
    pc,           \* where ILDParser.parse is: "top", "class", "done", "raised"
    doc,          \* the ILDDocument under construction
    class_def,    \* the ClassDef under construction in _parse_class (Optional)
    cls,          \* the Class handed to _write_class_registration
    phase,        \* where _write_class_registration is: "start", "methods", "done"
    mi,           \* index into cls.methods of the method loop
    registered_methods, \* the set registered_methods of _write_class_registration
    out,          \* the registration calls written to the file so far
    module_def,   \* the ModuleConfig under construction in _parse_module (Optional)
    targets,      \* the dict targets of _parse_targets
    target_config,\* target name and dict config of _parse_target_config (Optional)
    items,        \* the converters of _parse_converters / utilities of _parse_utilities
    driver,       \* the command-line entry point that runs, "none" without one
    output_dir,   \* the files of the output directory
    exit_code     \* the exit status of the entry point (Optional)

idlVars == <<file, errors, warnings, idl, held, ret, op, calls>>

ildVars == <<lines, current_line, pc, doc, class_def>>

emitVars == <<cls, phase, mi, registered_methods, out>>

blockVars == <<module_def, targets, target_config, items>>

driverVars == <<driver, output_dir, exit_code>>

vars == <<file, errors, warnings, idl, held, ret, op, calls,
          lines, current_line, pc, doc, class_def,
          cls, phase, mi, registered_methods, out,
          module_def, targets, target_config, items,
          driver, output_dir, exit_code>>

(***************************************************************************)
(* Bounds of the model.                                                    *)
(***************************************************************************)
MaxClasses == 4
MaxFunctions == 2
MaxValidateCalls == 2
MaxLines == 5
MaxCtors == 2

\* methods of a class whose registration is written
MaxMethods == 2

\* parameters of an overload whose suffix is computed
MaxParams == 2

\* fields of a class whose registration is written
MaxFields == 1

\* blocks of a DSL text
MaxBlocks == 3

\* blocks of a DSL text whose parse is followed to its end
MaxFairBlocks == 2

\* comma-separated entries of a parameter string
MaxEntries == 3

\* converters of a document whose binding code is generated
MaxConverters == 3

\* class entries and function entries of a document with faulty entries
MaxItems == 3

(***************************************************************************)
(* Generic helpers.                                                        *)
(***************************************************************************)
None == <<>>

Some(x) == <<x>>

SeqToSet(s) == {s[i] : i \in DOMAIN s}

Min(a, b) == IF a < b THEN a ELSE b

SeqsUpTo(S, n) == UNION {[1..k -> S] : k \in 0..n}

(***************************************************************************)
(* Character-level strings: a text is a sequence of one-character strings. *)
(***************************************************************************)
\* the TLA+ string spelled by a text
RECURSIVE Str(_)
Str(cs) == IF cs = <<>> THEN "" ELSE Head(cs) \o Str(Tail(cs))

LowerCase ==
    {"a", "b", "c", "d", "e", "f", "g", "h", "i", "j", "k", "l", "m",
     "n", "o", "p", "q", "r", "s", "t", "u", "v", "w", "x", "y", "z"}

UpperCase ==
    {"A", "B", "C", "D", "E", "F", "G", "H", "I", "J", "K", "L", "M",
     "N", "O", "P", "Q", "R", "S", "T", "U", "V", "W", "X", "Y", "Z"}

Digits == {"0", "1", "2", "3", "4", "5", "6", "7", "8", "9"}

\* \w of the regular expressions
IsWordChar(c) == c \in LowerCase \cup UpperCase \cup Digits \cup {"_"}

\* \s of the regular expressions, and what str.strip() removes
IsSpace(c) == c \in {" ", "\t"}

\* str.startswith
StartsWith(s, p) == Len(s) >= Len(p) /\ SubSeq(s, 1, Len(p)) = p

\* v is computed once and handed to F (a local variable of the code)
With(v, F(_)) == CHOOSE r \in {F(x) : x \in {v}} : TRUE

\* the first index >= i that holds no whitespace (Len(s) + 1 when none)
RECURSIVE SkipSpace(_, _)
SkipSpace(s, i) ==
    With(i, LAMBDA j : IF j <= Len(s) /\ IsSpace(s[j]) THEN SkipSpace(s, j + 1) ELSE j)

\* the first index >= i that holds no word character
RECURSIVE SkipWord(_, _)
SkipWord(s, i) ==
    With(i, LAMBDA j : IF j <= Len(s) /\ IsWordChar(s[j]) THEN SkipWord(s, j + 1) ELSE j)

\* the first index >= i that holds whitespace: the end of [^\s]+
RECURSIVE SkipNonSpace(_, _)
SkipNonSpace(s, i) ==
    With(i, LAMBDA j : IF j <= Len(s) /\ ~IsSpace(s[j]) THEN SkipNonSpace(s, j + 1) ELSE j)

\* the first index >= i that holds the character c (Len(s) + 1 when none)
RECURSIVE FindChar(_, _, _)
FindChar(s, c, i) ==
    With(i, LAMBDA j : IF j <= Len(s) /\ s[j] # c THEN FindChar(s, c, j + 1) ELSE j)

\* the last index <= i that holds the character c (0 when none)
RECURSIVE RFindChar(_, _, _)
RFindChar(s, c, i) ==
    With(i, LAMBDA j : IF j >= 1 /\ s[j] # c THEN RFindChar(s, c, j - 1) ELSE j)

\* str.strip()
RECURSIVE RStrip(_)
RStrip(s) == IF s # <<>> /\ IsSpace(s[Len(s)]) THEN RStrip(SubSeq(s, 1, Len(s) - 1)) ELSE s

Strip(s) == RStrip(SubSeq(s, SkipSpace(s, 1), Len(s)))

\* str.split(c) for a one-character separator
RECURSIVE Split(_, _)
Split(s, c) ==
    With(FindChar(s, c, 1), LAMBDA k :
        IF k > Len(s) THEN <<s>>
        ELSE <<SubSeq(s, 1, k - 1)>> \o With(SubSeq(s, k + 1, Len(s)), LAMBDA r : Split(r, c)))

\* str.replace(pat, ""): every occurrence of pat, left to right, removed
RECURSIVE Remove(_, _)
Remove(s, pat) ==
    IF s = <<>> THEN <<>>
    ELSE IF StartsWith(s, pat) THEN Remove(SubSeq(s, Len(pat) + 1, Len(s)), pat)
    ELSE <<Head(s)>> \o Remove(Tail(s), pat)

\* pat in s
RECURSIVE Contains(_, _)
Contains(s, pat) ==
    IF Len(s) < Len(pat) THEN FALSE
    ELSE StartsWith(s, pat) \/ Contains(Tail(s), pat)

\* s.split(sep)[-1]: what follows the last separator of a left-to-right split
RECURSIVE LastPieceFrom(_, _, _)
LastPieceFrom(s, sep, acc) ==
    IF s = <<>> THEN acc
    ELSE IF StartsWith(s, sep) THEN LastPieceFrom(SubSeq(s, Len(sep) + 1, Len(s)), sep, <<>>)
    ELSE LastPieceFrom(Tail(s), sep, Append(acc, Head(s)))

LastPiece(s, sep) == LastPieceFrom(s, sep, <<>>)

UpperSeq == <<"A", "B", "C", "D", "E", "F", "G", "H", "I", "J", "K", "L", "M", "N", "O", "P", "Q", "R", "S", "T", "U", "V", "W", "X", "Y", "Z">>

LowerSeq == <<"a", "b", "c", "d", "e", "f", "g", "h", "i", "j", "k", "l", "m", "n", "o", "p", "q", "r", "s", "t", "u", "v", "w", "x", "y", "z">>

\* str.lower() on one character
LowerChar(c) ==
    IF c \in UpperCase THEN LowerSeq[CHOOSE i \in DOMAIN UpperSeq : UpperSeq[i] = c] ELSE c

\* str.lower()
Lower(s) == [i \in DOMAIN s |-> LowerChar(s[i])]

\* sep.join(parts) for TLA+ strings
RECURSIVE Join(_, _)
Join(parts, sep) ==
    IF parts = <<>> THEN ""
    ELSE IF Len(parts) = 1 THEN parts[1]
    ELSE parts[1] \o sep \o Join(Tail(parts), sep)

\* str(n) for the small numbers that occur
DigitOf(n) == CASE n = 0 -> "0" [] n = 1 -> "1" [] n = 2 -> "2" [] n = 3 -> "3" [] n = 4 -> "4"
                [] n = 5 -> "5" [] n = 6 -> "6" [] n = 7 -> "7" [] n = 8 -> "8" [] OTHER -> "9"

IntToStr(n) == IF n < 10 THEN DigitOf(n) ELSE DigitOf(n \div 10) \o DigitOf(n % 10)

(***************************************************************************)
(* The data model (dataclasses of rosetta_idl_parser.py).                  *)
(***************************************************************************)
\* Class.cpp_name: cpp_class or name
ClassCppName(c) == IF c.cpp_class # None /\ c.cpp_class[1] # "" THEN c.cpp_class[1] ELSE c.name

\* BaseClass.from_dict on a string entry: the name, normal/public inheritance
BaseClassFromDict(b) == [name |-> b, inheritance_type |-> "normal", access |-> "public"]

\* Constructor.from_dict: the parameters in order
ConstructorFromDict(cd) == [parameters |-> cd.parameters]

\* the outcome of a from_dict: the object, or the exception raised
Built(v) == [raised |-> FALSE, exc |-> "", val |-> Some(v)]

Raised(exc) == [raised |-> TRUE, exc |-> exc, val |-> None]

\* str(KeyError(key))
KeyError(key) == "'" \o key \o "'"

\* a list comprehension over from_dict results: does one of them raise, the
\* exception of the first that does, the objects built
AnyRaised(rs) == \E i \in DOMAIN rs : rs[i].raised

FirstRaised(rs) ==
    rs[CHOOSE i \in DOMAIN rs : rs[i].raised /\ \A j \in 1..(i - 1) : ~rs[j].raised].exc

Values(rs) == [i \in DOMAIN rs |-> rs[i].val[1]]

\* Parameter.from_dict: data['name'], then data['type']
ParameterFromDict(pd) ==
    IF pd.name = None THEN Raised(KeyError("name"))
    ELSE IF pd.type = None THEN Raised(KeyError("type"))
    ELSE Built([name |-> pd.name[1], type |-> pd.type[1]])

\* the values of AccessMode
AccessModes == {"rw", "ro", "wo"}

\* Field.from_dict: AccessMode(data.get('access', 'rw')) first, then
\* data['name'] and data['type']
FieldFromDict(fd) ==
    LET access_str == IF fd.access = None THEN "rw" ELSE fd.access[1]
    IN IF access_str \notin AccessModes
       THEN Raised("'" \o access_str \o "' is not a valid AccessMode")
       ELSE IF fd.name = None THEN Raised(KeyError("name"))
       ELSE IF fd.type = None THEN Raised(KeyError("type"))
       ELSE Built([name |-> fd.name[1], type |-> fd.type[1], access |-> access_str,
                   cpp_name |-> fd.cpp_name, getter |-> fd.getter, setter |-> fd.setter])

\* Method.from_dict: the parameters first, then data['name']; returns
\* defaults to 'void'
MethodFromDict(md) ==
    LET params == [i \in DOMAIN md.parameters |-> ParameterFromDict(md.parameters[i])]
    IN IF AnyRaised(params) THEN Raised(FirstRaised(params))
       ELSE IF md.name = None THEN Raised(KeyError("name"))
       ELSE Built([name |-> md.name[1],
                   returns |-> IF md.returns = None THEN "void" ELSE md.returns[1],
                   parameters |-> Values(params),
                   const |-> md.const, virtual |-> md.virtual,
                   pure_virtual |-> md.pure_virtual, override |-> md.override,
                   static |-> md.static, cpp_name |-> md.cpp_name])

\* Class.from_dict: fields, methods, constructors and base classes are built
\* first, then data['name'] is read; a missing name raises KeyError('name').
\* No constructor is added.  (The constructor entries of the documents carry
\* well-formed parameters.)
ClassFromDict(cd) ==
    LET fields == [i \in DOMAIN cd.fields |-> FieldFromDict(cd.fields[i])]
        methods == [i \in DOMAIN cd.methods |-> MethodFromDict(cd.methods[i])]
    IN IF AnyRaised(fields) THEN [raised |-> TRUE, exc |-> FirstRaised(fields), cls |-> None]
       ELSE IF AnyRaised(methods) THEN [raised |-> TRUE, exc |-> FirstRaised(methods), cls |-> None]
       ELSE IF cd.name = None
       THEN [raised |-> TRUE, exc |-> KeyError("name"), cls |-> None]
       ELSE [raised |-> FALSE, exc |-> "",
             cls |-> Some([name |-> cd.name[1],
                           cpp_class |-> cd.cpp_class,
                           fields |-> Values(fields),
                           methods |-> Values(methods),
                           constructors |-> [i \in DOMAIN cd.constructors |->
                                                ConstructorFromDict(cd.constructors[i])],
                           base_classes |-> [i \in DOMAIN cd.base_classes |->
                                                BaseClassFromDict(cd.base_classes[i])]])]

\* Function.from_dict: the parameters first, then data['name']
FunctionFromDict(fd) ==
    LET params == [i \in DOMAIN fd.parameters |-> ParameterFromDict(fd.parameters[i])]
    IN IF AnyRaised(params) THEN [raised |-> TRUE, exc |-> FirstRaised(params), func |-> None]
       ELSE IF fd.name = None
       THEN [raised |-> TRUE, exc |-> KeyError("name"), func |-> None]
       ELSE [raised |-> FALSE, exc |-> "",
             func |-> Some([name |-> fd.name[1], parameters |-> Values(params)])]

\* cls_data.get('name', '?')
NameOrQ(d) == IF d.name = None THEN "?" ELSE d.name[1]

\* a lookup that gives up after the first class
GetClassFromFirstOnly(classes, i, name) ==
    IF i > Len(classes) THEN None
    ELSE IF classes[i].name = name \/ ClassCppName(classes[i]) = name
         THEN Some(classes[i])
         ELSE None

\* InterfaceDefinition.get_class: the first class whose name or cpp_name is `name`
RECURSIVE GetClassFrom(_, _, _)
GetClassFrom(classes, i, name) ==
    IF i > Len(classes) THEN None
    ELSE IF classes[i].name = name \/ ClassCppName(classes[i]) = name
         THEN Some(classes[i])
         ELSE GetClassFrom(classes, i + 1, name)

GetClass(d, name) == GetClassFrom(d.classes, 1, name)

(***************************************************************************)
(* IDLParser.parse_dict                                                    *)
(***************************************************************************)
\* a loop over data['classes'] that gives up at the first failing entry
RECURSIVE ParseClassesStopAtFirst(_, _, _)
ParseClassesStopAtFirst(cds, i, acc) ==
    IF i > Len(cds) THEN acc
    ELSE LET r == ClassFromDict(cds[i])
         IN IF r.raised
            THEN [acc EXCEPT !.errors = Append(@,
                        "Error parsing class '" \o NameOrQ(cds[i]) \o "': " \o r.exc)]
            ELSE ParseClassesStopAtFirst(cds, i + 1,
                    [acc EXCEPT !.items = Append(@, r.cls[1])])

\* the loop over data['classes']: every entry is tried, a failing one records
\* an error and the loop goes on
RECURSIVE ParseClasses(_, _, _)
ParseClasses(cds, i, acc) ==
    IF i > Len(cds) THEN acc
    ELSE LET r == ClassFromDict(cds[i])
         IN IF r.raised
            THEN ParseClasses(cds, i + 1,
                    [acc EXCEPT !.errors = Append(@,
                        "Error parsing class '" \o NameOrQ(cds[i]) \o "': " \o r.exc)])
            ELSE ParseClasses(cds, i + 1,
                    [acc EXCEPT !.items = Append(@, r.cls[1])])

RECURSIVE ParseFunctions(_, _, _)
ParseFunctions(fds, i, acc) ==
    IF i > Len(fds) THEN acc
    ELSE LET r == FunctionFromDict(fds[i])
         IN IF r.raised
            THEN ParseFunctions(fds, i + 1,
                    [acc EXCEPT !.errors = Append(@,
                        "Error parsing function '" \o NameOrQ(fds[i]) \o "': " \o r.exc)])
            ELSE ParseFunctions(fds, i + 1,
                    [acc EXCEPT !.items = Append(@, r.func[1])])

\* a module section with its name entry (Optional)
ModuleSection(name) == Some([name |-> name])

\* a parse_dict without the handler around its body: the KeyError of a module
\* section without name escapes, nothing is recorded
ParseDictResultWithoutHandler(data) ==
    IF data.module = None
    THEN [idl |-> None, errors |-> <<"Missing required 'module' section">>, warnings |-> <<>>]
    ELSE IF data.module[1].name = None
    THEN [idl |-> None, errors |-> <<>>, warnings |-> <<>>]
    ELSE LET cs == ParseClasses(data.classes, 1, [items |-> <<>>, errors |-> <<>>])
             fs == ParseFunctions(data.functions, 1, [items |-> <<>>, errors |-> cs.errors])
         IN IF fs.errors # <<>>
            THEN [idl |-> None, errors |-> fs.errors, warnings |-> <<>>]
            ELSE [idl |-> Some([module |-> data.module[1].name[1],
                                classes |-> cs.items,
                                functions |-> fs.items]),
                  errors |-> <<>>, warnings |-> <<>>]

\* parse_dict: clears both lists, then builds the definition; returns None once
\* any error was recorded.  Module.from_dict raises KeyError('name') on a
\* module section without name; the handler around the body records it.
ParseDictResult(data) ==
    IF data.module = None
    THEN [idl |-> None, errors |-> <<"Missing required 'module' section">>, warnings |-> <<>>]
    ELSE IF data.module[1].name = None
    THEN [idl |-> None,
          errors |-> <<"Error creating interface definition: " \o KeyError("name")>>,
          warnings |-> <<>>]
    ELSE LET cs == ParseClasses(data.classes, 1, [items |-> <<>>, errors |-> <<>>])
             fs == ParseFunctions(data.functions, 1, [items |-> <<>>, errors |-> cs.errors])
         IN IF fs.errors # <<>>
            THEN [idl |-> None, errors |-> fs.errors, warnings |-> <<>>]
            ELSE [idl |-> Some([module |-> data.module[1].name[1],
                                classes |-> cs.items,
                                functions |-> fs.items]),
                  errors |-> <<>>, warnings |-> <<>>]

\* parse_dict(None), the value yaml.safe_load gives for an empty document:
\* both lists are cleared, 'module' not in None raises TypeError, the handler
\* around the body records it
ParseDictOfNone ==
    [idl |-> None,
     errors |-> <<"Error creating interface definition: argument of type 'NoneType' is not iterable">>,
     warnings |-> <<>>]

\* parse_file: a missing file and a YAML error are recorded without clearing
ParseFileResult(f, errs, warns) ==
    IF ~f.exists
    THEN [idl |-> None, errors |-> Append(errs, "File not found"), warnings |-> warns]
    ELSE IF ~f.yaml_ok
         THEN [idl |-> None, errors |-> Append(errs, "YAML parsing error"), warnings |-> warns]
         ELSE IF f.empty THEN ParseDictOfNone
         ELSE ParseDictResult(f.data)

(***************************************************************************)
(* IDLParser.validate                                                      *)
(***************************************************************************)
WarningUndefinedBase(clsName, baseName) ==
    "Class '" \o clsName \o "' inherits from '" \o baseName
        \o "' which is not defined in this IDL"

\* the inner loop: for base in cls.base_classes
RECURSIVE BaseWarnings(_, _, _, _)
BaseWarnings(d, c, j, acc) ==
    IF j > Len(c.base_classes) THEN acc
    ELSE IF GetClass(d, c.base_classes[j].name) = None
         THEN BaseWarnings(d, c, j + 1,
                  Append(acc, WarningUndefinedBase(c.name, c.base_classes[j].name)))
         ELSE BaseWarnings(d, c, j + 1, acc)

\* the outer loop: for cls in idl.classes
RECURSIVE InheritanceWarnings(_, _, _)
InheritanceWarnings(d, i, acc) ==
    IF i > Len(d.classes) THEN acc
    ELSE InheritanceWarnings(d, i + 1, BaseWarnings(d, d.classes[i], 1, acc))

ClassNames(d) == [i \in DOMAIN d.classes |-> d.classes[i].name]

FuncNames(d) == [i \in DOMAIN d.functions |-> d.functions[i].name]

\* a duplicate check that is off by one
HasDuplicatesOffByOne(names) == Len(names) > Cardinality(SeqToSet(names)) + 1

\* len(names) != len(set(names))
HasDuplicates(names) == Len(names) # Cardinality(SeqToSet(names))

\* validate: appends to the lists it finds, returns at the first duplicate check
\* that fails, and has no cycle check
ValidateResult(d, errs, warns) ==
    IF HasDuplicates(ClassNames(d))
    THEN [ret |-> FALSE, errors |-> Append(errs, "Duplicate class names found"),
          warnings |-> warns]
    ELSE IF HasDuplicates(FuncNames(d))
    THEN [ret |-> FALSE, errors |-> Append(errs, "Duplicate function names found"),
          warnings |-> warns]
    ELSE [ret |-> Len(errs) = 0, errors |-> errs,
          warnings |-> InheritanceWarnings(d, 1, warns)]

\* parse_idl after the fresh parser's parse_file gave p: validate; None unless
\* both pass
ParseIdlResult(p) ==
    IF p.idl = None
    THEN [idl |-> None, errors |-> p.errors, warnings |-> p.warnings]
    ELSE LET v == ValidateResult(p.idl[1], p.errors, p.warnings)
         IN IF ~v.ret \/ Len(v.errors) > 0
            THEN [idl |-> None, errors |-> v.errors, warnings |-> v.warnings]
            ELSE [idl |-> p.idl, errors |-> v.errors, warnings |-> v.warnings]

(***************************************************************************)
(* The DSL parser (ild/ild_parser.py): the top-level loop of               *)
(* ILDParser.parse and the class block of ILDParser._parse_class, one      *)
(* loop iteration per step.                                                *)
(***************************************************************************)
\* ModuleConfig(name): the defaults of the dataclass
ModuleConfigOf(name) == [name |-> name, version |-> "1.0.0", description |-> "", targets |-> <<>>]

\* ILDDocument(module=ModuleConfig(name="unnamed"))
EmptyILDDocument ==
    [module |-> ModuleConfigOf("unnamed"), includes |-> <<>>, converters |-> {},
     classes |-> <<>>, functions |-> <<>>, utilities |-> <<>>]

\* no block of the DSL parser is open
BlockIdle ==
    /\ module_def = None
    /\ targets = <<>>
    /\ target_config = None
    /\ items = <<>>

KwClass == <<"c", "l", "a", "s", "s">>

KwConstructor == <<"c", "o", "n", "s", "t", "r", "u", "c", "t", "o", "r">>

KwField == <<"f", "i", "e", "l", "d">>

KwMethod == <<"m", "e", "t", "h", "o", "d">>

KwAs == <<"a", "s">>

\* the prefixes ILDParser.parse dispatches on
TopPrefixes ==
    { <<"m", "o", "d", "u", "l", "e", " ">>,
      <<"i", "n", "c", "l", "u", "d", "e", " ">>,
      <<"c", "o", "n", "v", "e", "r", "t", "e", "r", "s", " ", "{">>,
      KwClass \o <<" ">>,
      <<"f", "u", "n", "c", "t", "i", "o", "n", " ">>,
      <<"u", "t", "i", "l", "i", "t", "i", "e", "s", " ", "{">> }

\* a parameter loop that numbers a nameless entry by its place among the
\* comma-separated entries
RECURSIVE ParameterLoopEntryIndex(_, _, _)
ParameterLoopEntryIndex(parts, i, params) ==
    IF i > Len(parts) THEN params
    ELSE With(Strip(parts[i]), LAMBDA param :
         With(RFindChar(param, " ", Len(param)), LAMBDA k :
            IF param = <<>> THEN ParameterLoopEntryIndex(parts, i + 1, params)
            ELSE IF k >= 1
            THEN With(Append(params, [name |-> Str(SubSeq(param, k + 1, Len(param))),
                                      type |-> Str(SubSeq(param, 1, k - 1))]),
                      LAMBDA ps : ParameterLoopEntryIndex(parts, i + 1, ps))
            ELSE With(Append(params, [name |-> "arg" \o IntToStr(i - 1),
                                      type |-> Str(param)]),
                      LAMBDA ps : ParameterLoopEntryIndex(parts, i + 1, ps))))

\* the loop body of _parse_parameter_list over the comma-separated entries
RECURSIVE ParameterLoop(_, _, _)
ParameterLoop(parts, i, params) ==
    IF i > Len(parts) THEN params
    ELSE With(Strip(parts[i]), LAMBDA param :
         With(RFindChar(param, " ", Len(param)), LAMBDA k :
            IF param = <<>> THEN ParameterLoop(parts, i + 1, params)
            ELSE IF k >= 1
            THEN With(Append(params, [name |-> Str(SubSeq(param, k + 1, Len(param))),
                                      type |-> Str(SubSeq(param, 1, k - 1))]),
                      LAMBDA ps : ParameterLoop(parts, i + 1, ps))
            ELSE With(Append(params, [name |-> "arg" \o IntToStr(Len(params)),
                                      type |-> Str(param)]),
                      LAMBDA ps : ParameterLoop(parts, i + 1, ps))))

\* ILDParser._parse_parameter_list
ParseParameterList(params_str) ==
    IF Strip(params_str) = <<>> THEN <<>>
    ELSE With(Split(params_str, ","), LAMBDA parts : ParameterLoop(parts, 1, <<>>))

\* the optional group (?:\s+as\s+(\w+))? tried at index i: the alias or None
MatchAlias(line, i) ==
    LET g == SkipSpace(line, i)
        h == SkipSpace(line, g + 2)
        k == SkipWord(line, h)
    IN IF g > i /\ SubSeq(line, g, g + 1) = KwAs /\ h > g + 2 /\ k > h
       THEN Some(Str(SubSeq(line, h, k - 1)))
       ELSE None

\* re.match(r'class\s+(\w+)(?:\s*:\s*(\w+))?\s*{', line)
MatchClassHeader(line) ==
    LET a == SkipSpace(line, Len(KwClass) + 1)
        b == SkipWord(line, a)
        c == SkipSpace(line, b)
        d == SkipSpace(line, c + 1)
        e == SkipWord(line, d)
        hasBase == c <= Len(line) /\ line[c] = ":" /\ e > d
        f == SkipSpace(line, IF hasBase THEN e ELSE b)
    IN [ok |-> /\ StartsWith(line, KwClass) /\ a > Len(KwClass) + 1 /\ b > a
               /\ f <= Len(line) /\ line[f] = "{",
        name |-> Str(SubSeq(line, a, b - 1)),
        base |-> IF hasBase THEN Some(Str(SubSeq(line, d, e - 1))) ELSE None]

\* re.match(r'field\s+(\w+)\s*:\s*([^\s]+)(?:\s+as\s+(\w+))?', line)
MatchField(line) ==
    LET a == SkipSpace(line, Len(KwField) + 1)
        b == SkipWord(line, a)
        c == SkipSpace(line, b)
        d == SkipSpace(line, c + 1)
        e == SkipNonSpace(line, d)
    IN [ok |-> /\ StartsWith(line, KwField) /\ a > Len(KwField) + 1 /\ b > a
               /\ c <= Len(line) /\ line[c] = ":" /\ e > d,
        name |-> Str(SubSeq(line, a, b - 1)),
        type |-> Str(SubSeq(line, d, e - 1)),
        alias |-> MatchAlias(line, e)]

\* re.match(r'method\s+(\w+)\s*\(([^)]*)\)\s*:\s*([^\s]+)(?:\s+as\s+(\w+))?', line)
MatchMethod(line) ==
    LET a == SkipSpace(line, Len(KwMethod) + 1)
        b == SkipWord(line, a)
        c == SkipSpace(line, b)
        d == FindChar(line, ")", c + 1)
        e == SkipSpace(line, d + 1)
        f == SkipSpace(line, e + 1)
        g == SkipNonSpace(line, f)
    IN [ok |-> /\ StartsWith(line, KwMethod) /\ a > Len(KwMethod) + 1 /\ b > a
               /\ c <= Len(line) /\ line[c] = "(" /\ d <= Len(line)
               /\ e <= Len(line) /\ line[e] = ":" /\ g > f,
        name |-> Str(SubSeq(line, a, b - 1)),
        params_str |-> SubSeq(line, c + 1, d - 1),
        return_type |-> Str(SubSeq(line, f, g - 1)),
        alias |-> MatchAlias(line, g)]

\* Constructor(): no parameters
DefaultConstructor == [parameters |-> <<>>]

\* the end of _parse_class: "Add default constructor if none specified"
WithDefaultConstructor(cd) ==
    IF cd.constructors = <<>> THEN [cd EXCEPT !.constructors = <<DefaultConstructor>>] ELSE cd

\* self.lines[self.current_line]
CurLine == lines[current_line + 1]

\* parse: "elif line.startswith('class ')", then the head of _parse_class; an
\* invalid header raises ValueError out of parse
ILDParseClassOpen ==
    /\ pc = "top"
    /\ current_line < Len(lines)
    /\ StartsWith(CurLine, KwClass \o <<" ">>)
    /\ LET m == MatchClassHeader(CurLine)
       IN IF m.ok
          THEN /\ class_def' = Some([name |-> m.name, constructors |-> <<>>, fields |-> <<>>,
                                     methods |-> <<>>, base_class |-> m.base])
               /\ current_line' = current_line + 1
               /\ pc' = "class"
          ELSE /\ pc' = "raised"
               /\ UNCHANGED <<class_def, current_line>>
    /\ UNCHANGED <<lines, doc, idlVars, driverVars, emitVars, blockVars>>

\* parse: the final else, self.current_line += 1
ILDSkipLine ==
    /\ pc = "top"
    /\ current_line < Len(lines)
    /\ \A p \in TopPrefixes : ~StartsWith(CurLine, p)
    /\ current_line' = current_line + 1
    /\ UNCHANGED <<lines, pc, doc, class_def, idlVars, driverVars, emitVars, blockVars>>

\* parse: the loop ends, return doc
ILDReturn ==
    /\ pc = "top"
    /\ current_line >= Len(lines)
    /\ pc' = "done"
    /\ UNCHANGED <<lines, current_line, doc, class_def, idlVars, driverVars, emitVars, blockVars>>

\* _parse_class returns and parse appends the class to doc.classes
ClassReturns ==
    /\ doc' = [doc EXCEPT !.classes = Append(@, WithDefaultConstructor(class_def[1]))]
    /\ class_def' = None
    /\ pc' = "top"

\* _parse_class: the lines run out before the closing brace
ILDClassEnd ==
    /\ pc = "class"
    /\ current_line >= Len(lines)
    /\ ClassReturns
    /\ UNCHANGED <<lines, current_line, idlVars, driverVars, emitVars, blockVars>>

\* _parse_class: line == '}'
ILDClassClose ==
    /\ pc = "class"
    /\ current_line < Len(lines)
    /\ CurLine = <<"}">>
    /\ current_line' = current_line + 1
    /\ ClassReturns
    /\ UNCHANGED <<lines, idlVars, driverVars, emitVars, blockVars>>

\* _parse_class: line.startswith('constructor'), _parse_constructor
ILDClassConstructor ==
    /\ pc = "class"
    /\ current_line < Len(lines)
    /\ CurLine # <<"}">>
    /\ StartsWith(CurLine, KwConstructor)
    /\ class_def' = Some([class_def[1] EXCEPT !.constructors = Append(@,
            [parameters |-> ParseParameterList(
                SubSeq(CurLine, Len(KwConstructor) + 1, Len(CurLine)))])])
    /\ current_line' = current_line + 1
    /\ UNCHANGED <<lines, pc, doc, idlVars, driverVars, emitVars, blockVars>>

\* _parse_class: line.startswith('field '), _parse_field
ILDClassField ==
    /\ pc = "class"
    /\ current_line < Len(lines)
    /\ CurLine # <<"}">>
    /\ ~StartsWith(CurLine, KwConstructor)
    /\ StartsWith(CurLine, KwField \o <<" ">>)
    /\ LET m == MatchField(CurLine)
       IN IF m.ok
          THEN /\ class_def' = Some([class_def[1] EXCEPT !.fields = Append(@,
                                    [name |-> m.name, type |-> m.type, alias |-> m.alias])])
               /\ current_line' = current_line + 1
               /\ pc' = pc
          ELSE /\ pc' = "raised"
               /\ UNCHANGED <<class_def, current_line>>
    /\ UNCHANGED <<lines, doc, idlVars, driverVars, emitVars, blockVars>>

\* _parse_class: line.startswith('method '), _parse_method
ILDClassMethod ==
    /\ pc = "class"
    /\ current_line < Len(lines)
    /\ CurLine # <<"}">>
    /\ ~StartsWith(CurLine, KwConstructor)
    /\ ~StartsWith(CurLine, KwField \o <<" ">>)
    /\ StartsWith(CurLine, KwMethod \o <<" ">>)
    /\ LET m == MatchMethod(CurLine)
       IN IF m.ok
          THEN /\ class_def' = Some([class_def[1] EXCEPT !.methods = Append(@,
                                    [name |-> m.name, return_type |-> m.return_type,
                                     parameters |-> ParseParameterList(m.params_str),
                                     alias |-> m.alias, is_const |-> TRUE])])
               /\ current_line' = current_line + 1
               /\ pc' = pc
          ELSE /\ pc' = "raised"
               /\ UNCHANGED <<class_def, current_line>>
    /\ UNCHANGED <<lines, doc, idlVars, driverVars, emitVars, blockVars>>

\* _parse_class: the final else, self.current_line += 1
ILDClassSkip ==
    /\ pc = "class"
    /\ current_line < Len(lines)
    /\ CurLine # <<"}">>
    /\ ~StartsWith(CurLine, KwConstructor)
    /\ ~StartsWith(CurLine, KwField \o <<" ">>)
    /\ ~StartsWith(CurLine, KwMethod \o <<" ">>)
    /\ current_line' = current_line + 1
    /\ UNCHANGED <<lines, pc, doc, class_def, idlVars, driverVars, emitVars, blockVars>>

(***************************************************************************)
(* ILDParser: the other top-level blocks of parse (module with its targets, *)
(* include, converters, function, utilities).                              *)
(***************************************************************************)
KwModule == <<"m", "o", "d", "u", "l", "e">>

KwInclude == <<"i", "n", "c", "l", "u", "d", "e">>

KwFunction == <<"f", "u", "n", "c", "t", "i", "o", "n">>

KwVersion == <<"v", "e", "r", "s", "i", "o", "n", ":">>

KwDescription == <<"d", "e", "s", "c", "r", "i", "p", "t", "i", "o", "n", ":">>

KwTargets == <<"t", "a", "r", "g", "e", "t", "s", " ", "{">>

KwConverters == <<"c", "o", "n", "v", "e", "r", "t", "e", "r", "s", " ", "{">>

KwUtilities == <<"u", "t", "i", "l", "i", "t", "i", "e", "s", " ", "{">>

\* str.strip('"')
RECURSIVE StripQuotes(_)
StripQuotes(s) ==
    IF s # <<>> /\ Head(s) = "\"" THEN StripQuotes(Tail(s))
    ELSE IF s # <<>> /\ s[Len(s)] = "\"" THEN StripQuotes(SubSeq(s, 1, Len(s) - 1))
    ELSE s

\* ILDParser._parse_value: line.split(':', 1)[1].strip().strip('"')
ParseValue(line) ==
    Str(StripQuotes(Strip(SubSeq(line, FindChar(line, ":", 1) + 1, Len(line)))))

\* d[k] = v on a dict kept as the sequence of its items in insertion order
DictPut(d, k, v) ==
    IF \E i \in DOMAIN d : d[i].key = k
    THEN [i \in DOMAIN d |-> IF d[i].key = k THEN [key |-> k, value |-> v] ELSE d[i]]
    ELSE Append(d, [key |-> k, value |-> v])

\* re.match(r'module\s+(\w+)\s*{', line)
MatchModuleHeader(line) ==
    LET a == SkipSpace(line, Len(KwModule) + 1)
        b == SkipWord(line, a)
        c == SkipSpace(line, b)
    IN [ok |-> /\ StartsWith(line, KwModule) /\ a > Len(KwModule) + 1 /\ b > a
               /\ c <= Len(line) /\ line[c] = "{",
        name |-> Str(SubSeq(line, a, b - 1))]

\* re.match(r'include\s+"([^"]+)"', line)
MatchInclude(line) ==
    LET a == SkipSpace(line, Len(KwInclude) + 1)
        b == FindChar(line, "\"", a + 1)
    IN [ok |-> /\ StartsWith(line, KwInclude) /\ a > Len(KwInclude) + 1
               /\ a <= Len(line) /\ line[a] = "\"" /\ b > a + 1 /\ b <= Len(line),
        path |-> Str(SubSeq(line, a + 1, b - 1))]

\* re.match(r'function\s+(\w+)\s*\(([^)]*)\)\s*:\s*([^\s]+)(?:\s+as\s+(\w+))?', line)
MatchFunction(line) ==
    LET a == SkipSpace(line, Len(KwFunction) + 1)
        b == SkipWord(line, a)
        c == SkipSpace(line, b)
        d == FindChar(line, ")", c + 1)
        e == SkipSpace(line, d + 1)
        f == SkipSpace(line, e + 1)
        g == SkipNonSpace(line, f)
    IN [ok |-> /\ StartsWith(line, KwFunction) /\ a > Len(KwFunction) + 1 /\ b > a
               /\ c <= Len(line) /\ line[c] = "(" /\ d <= Len(line)
               /\ e <= Len(line) /\ line[e] = ":" /\ g > f,
        name |-> Str(SubSeq(line, a, b - 1)),
        params_str |-> SubSeq(line, c + 1, d - 1),
        return_type |-> Str(SubSeq(line, f, g - 1)),
        alias |-> MatchAlias(line, g)]

\* the loop of a block ends: the lines ran out, or the line is '}' and the
\* cursor moves past it
BlockLoopEnds ==
    \/ current_line >= Len(lines) /\ UNCHANGED current_line
    \/ current_line < Len(lines) /\ CurLine = <<"}">> /\ current_line' = current_line + 1

\* a line of a block that is not its closing brace
InBlock(p) == pc = p /\ current_line < Len(lines) /\ CurLine # <<"}">>

\* parse: line.startswith('module '), then the head of _parse_module
ILDParseModuleOpen ==
    /\ pc = "top"
    /\ current_line < Len(lines)
    /\ StartsWith(CurLine, KwModule \o <<" ">>)
    /\ LET m == MatchModuleHeader(CurLine)
       IN IF m.ok
          THEN /\ module_def' = Some(ModuleConfigOf(m.name))
               /\ current_line' = current_line + 1
               /\ pc' = "module"
          ELSE /\ pc' = "raised"
               /\ UNCHANGED <<module_def, current_line>>
    /\ UNCHANGED <<lines, doc, class_def, targets, target_config, items, idlVars, driverVars, emitVars>>

\* _parse_module returns and parse stores doc.module
ILDModuleReturn ==
    /\ pc = "module"
    /\ BlockLoopEnds
    /\ doc' = [doc EXCEPT !.module = module_def[1]]
    /\ module_def' = None
    /\ pc' = "top"
    /\ UNCHANGED <<lines, class_def, targets, target_config, items, idlVars, driverVars, emitVars>>

\* _parse_module: line.startswith('version:'); the cursor stays where it is
ILDModuleVersion ==
    /\ InBlock("module")
    /\ StartsWith(CurLine, KwVersion)
    /\ module_def' = Some([module_def[1] EXCEPT !.version = ParseValue(CurLine)])
    /\ UNCHANGED <<lines, current_line, pc, doc, class_def, targets, target_config, items,
                   idlVars, driverVars, emitVars>>

\* _parse_module: line.startswith('description:'); the cursor stays where it is
ILDModuleDescription ==
    /\ InBlock("module")
    /\ ~StartsWith(CurLine, KwVersion)
    /\ StartsWith(CurLine, KwDescription)
    /\ module_def' = Some([module_def[1] EXCEPT !.description = ParseValue(CurLine)])
    /\ UNCHANGED <<lines, current_line, pc, doc, class_def, targets, target_config, items,
                   idlVars, driverVars, emitVars>>

\* _parse_module: line.startswith('targets {'), then the head of _parse_targets
ILDModuleTargetsOpen ==
    /\ InBlock("module")
    /\ ~StartsWith(CurLine, KwVersion)
    /\ ~StartsWith(CurLine, KwDescription)
    /\ StartsWith(CurLine, KwTargets)
    /\ targets' = <<>>
    /\ current_line' = current_line + 1
    /\ pc' = "targets"
    /\ UNCHANGED <<lines, doc, class_def, module_def, target_config, items, idlVars, driverVars, emitVars>>

\* _parse_module: the final else, self.current_line += 1
ILDModuleSkip ==
    /\ InBlock("module")
    /\ ~StartsWith(CurLine, KwVersion)
    /\ ~StartsWith(CurLine, KwDescription)
    /\ ~StartsWith(CurLine, KwTargets)
    /\ current_line' = current_line + 1
    /\ UNCHANGED <<lines, pc, doc, class_def, blockVars, idlVars, driverVars, emitVars>>

\* _parse_targets returns and _parse_module stores module.targets
ILDTargetsReturn ==
    /\ pc = "targets"
    /\ BlockLoopEnds
    /\ module_def' = Some([module_def[1] EXCEPT !.targets = targets])
    /\ targets' = <<>>
    /\ pc' = "module"
    /\ UNCHANGED <<lines, doc, class_def, target_config, items, idlVars, driverVars, emitVars>>

\* _parse_targets: line.endswith('{'), then the head of _parse_target_config
ILDTargetOpen ==
    /\ InBlock("targets")
    /\ CurLine[Len(CurLine)] = "{"
    /\ target_config' = Some([name |-> Str(Strip(SubSeq(CurLine, 1, Len(CurLine) - 1))),
                              config |-> <<>>])
    /\ current_line' = current_line + 1
    /\ pc' = "target_config"
    /\ UNCHANGED <<lines, doc, class_def, module_def, targets, items, idlVars, driverVars, emitVars>>

\* _parse_targets: the final else, self.current_line += 1
ILDTargetsSkip ==
    /\ InBlock("targets")
    /\ CurLine[Len(CurLine)] # "{"
    /\ current_line' = current_line + 1
    /\ UNCHANGED <<lines, pc, doc, class_def, blockVars, idlVars, driverVars, emitVars>>

\* _parse_target_config returns and _parse_targets stores targets[target_name]
ILDTargetConfigReturn ==
    /\ pc = "target_config"
    /\ BlockLoopEnds
    /\ targets' = DictPut(targets, target_config[1].name, target_config[1].config)
    /\ target_config' = None
    /\ pc' = "targets"
    /\ UNCHANGED <<lines, doc, class_def, module_def, items, idlVars, driverVars, emitVars>>

\* _parse_target_config: ':' in line, config[key.strip()] = value.strip().strip('"')
ILDTargetConfigEntry ==
    /\ InBlock("target_config")
    /\ FindChar(CurLine, ":", 1) <= Len(CurLine)
    /\ LET k == FindChar(CurLine, ":", 1)
       IN target_config' = Some([target_config[1] EXCEPT !.config =
              DictPut(@, Str(Strip(SubSeq(CurLine, 1, k - 1))),
                         Str(StripQuotes(Strip(SubSeq(CurLine, k + 1, Len(CurLine))))))])
    /\ current_line' = current_line + 1
    /\ UNCHANGED <<lines, pc, doc, class_def, module_def, targets, items, idlVars, driverVars, emitVars>>

\* _parse_target_config: the final else, self.current_line += 1
ILDTargetConfigSkip ==
    /\ InBlock("target_config")
    /\ FindChar(CurLine, ":", 1) > Len(CurLine)
    /\ current_line' = current_line + 1
    /\ UNCHANGED <<lines, pc, doc, class_def, blockVars, idlVars, driverVars, emitVars>>

\* parse: line.startswith('include '), _parse_include; an invalid statement
\* raises ValueError out of parse
ILDParseInclude ==
    /\ pc = "top"
    /\ current_line < Len(lines)
    /\ StartsWith(CurLine, KwInclude \o <<" ">>)
    /\ LET m == MatchInclude(CurLine)
       IN IF m.ok
          THEN /\ doc' = [doc EXCEPT !.includes = Append(@, m.path)]
               /\ current_line' = current_line + 1
               /\ pc' = pc
          ELSE /\ pc' = "raised"
               /\ UNCHANGED <<doc, current_line>>
    /\ UNCHANGED <<lines, class_def, blockVars, idlVars, driverVars, emitVars>>

\* parse: line.startswith('converters {'), then the head of _parse_converters
ILDConvertersOpen ==
    /\ pc = "top"
    /\ current_line < Len(lines)
    /\ StartsWith(CurLine, KwConverters)
    /\ items' = <<>>
    /\ current_line' = current_line + 1
    /\ pc' = "converters"
    /\ UNCHANGED <<lines, doc, class_def, module_def, targets, target_config, idlVars, driverVars, emitVars>>

\* _parse_converters: converters.add(line)
ILDConvertersAdd ==
    /\ InBlock("converters")
    /\ items' = Append(items, Str(CurLine))
    /\ current_line' = current_line + 1
    /\ UNCHANGED <<lines, pc, doc, class_def, module_def, targets, target_config,
                   idlVars, driverVars, emitVars>>

\* _parse_converters returns its set and parse stores doc.converters
ILDConvertersReturn ==
    /\ pc = "converters"
    /\ BlockLoopEnds
    /\ doc' = [doc EXCEPT !.converters = SeqToSet(items)]
    /\ items' = <<>>
    /\ pc' = "top"
    /\ UNCHANGED <<lines, class_def, module_def, targets, target_config, idlVars, driverVars, emitVars>>

\* parse: line.startswith('function '), _parse_function; an invalid line raises
\* ValueError out of parse
ILDParseFunction ==
    /\ pc = "top"
    /\ current_line < Len(lines)
    /\ StartsWith(CurLine, KwFunction \o <<" ">>)
    /\ \E m \in {MatchFunction(CurLine)} :
          IF m.ok
          THEN /\ doc' = [doc EXCEPT !.functions = Append(@,
                            [name |-> m.name, return_type |-> m.return_type,
                             parameters |-> ParseParameterList(m.params_str),
                             alias |-> m.alias])]
               /\ current_line' = current_line + 1
               /\ pc' = pc
          ELSE /\ pc' = "raised"
               /\ UNCHANGED <<doc, current_line>>
    /\ UNCHANGED <<lines, class_def, blockVars, idlVars, driverVars, emitVars>>

\* parse: line.startswith('utilities {'), then the head of _parse_utilities
ILDUtilitiesOpen ==
    /\ pc = "top"
    /\ current_line < Len(lines)
    /\ StartsWith(CurLine, KwUtilities)
    /\ items' = <<>>
    /\ current_line' = current_line + 1
    /\ pc' = "utilities"
    /\ UNCHANGED <<lines, doc, class_def, module_def, targets, target_config, idlVars, driverVars, emitVars>>

\* _parse_utilities: utilities.append(line)
ILDUtilitiesAdd ==
    /\ InBlock("utilities")
    /\ items' = Append(items, Str(CurLine))
    /\ current_line' = current_line + 1
    /\ UNCHANGED <<lines, pc, doc, class_def, module_def, targets, target_config,
                   idlVars, driverVars, emitVars>>

\* _parse_utilities returns its list and parse stores doc.utilities
ILDUtilitiesReturn ==
    /\ pc = "utilities"
    /\ BlockLoopEnds
    /\ doc' = [doc EXCEPT !.utilities = items]
    /\ items' = <<>>
    /\ pc' = "top"
    /\ UNCHANGED <<lines, class_def, module_def, targets, target_config, idlVars, driverVars, emitVars>>


(***************************************************************************)
(* Input documents.                                                        *)
(***************************************************************************)
NameOf(i) == CASE i = 1 -> "A" [] i = 2 -> "B" [] i = 3 -> "C"
               [] i = 4 -> "D" [] i = 5 -> "E" [] OTHER -> "F"

\* base lists and underlying names a class entry may carry; "X" names no class
\* unless a class has it as underlying name
ClassShapes ==
    { [bases |-> <<>>, cpp |-> None],
      [bases |-> <<"A">>, cpp |-> None],
      [bases |-> <<"B">>, cpp |-> None],
      [bases |-> <<"B", "C">>, cpp |-> None],
      [bases |-> <<"X", "A">>, cpp |-> None],
      [bases |-> <<>>, cpp |-> Some("X")] }

ClassDict(name, shape) ==
    [name |-> name, cpp_class |-> shape.cpp, base_classes |-> shape.bases,
     constructors |-> <<>>, methods |-> <<>>, fields |-> <<>>]

\* n class entries; entry i is named NameOf(Min(i, k)): k distinct names, the
\* last one repeated
ClassDicts(n, k, shapes) ==
    [i \in 1..n |-> ClassDict(Some(NameOf(Min(i, k))), shapes[i])]

\* all names distinct, the last name used twice, or one name for every entry
NamePatterns(n) == {k \in 1..n : k \in {1, n - 1, n}}

FuncNameOf(i) == CASE i = 1 -> "f" [] i = 2 -> "g" [] OTHER -> "h"

FunctionDicts(n, k) ==
    [i \in 1..n |-> [name |-> Some(FuncNameOf(Min(i, k))), parameters |-> <<>>]]

FunctionLists ==
    {<<>>} \cup UNION { {FunctionDicts(n, k) : k \in {1, n}} : n \in 1..MaxFunctions }

EmptyDoc == [module |-> ModuleSection(Some("geom")), classes |-> <<>>, functions |-> <<>>]

WellFormedDoc(n, k, shapes, fl) ==
    [module |-> ModuleSection(Some("geom")), classes |-> ClassDicts(n, k, shapes), functions |-> fl]

\* documents that parse_dict rejects: no module section, a module section
\* without name, or an entry without name
RejectedDocs ==
    { [EmptyDoc EXCEPT !.module = None],
      [EmptyDoc EXCEPT !.module = ModuleSection(None)],
      [EmptyDoc EXCEPT !.classes = <<ClassDict(None, [bases |-> <<>>, cpp |-> None])>>],
      [EmptyDoc EXCEPT !.functions = <<[name |-> None, parameters |-> <<>>]>>] }

LoadedFile(d) == [exists |-> TRUE, yaml_ok |-> TRUE, empty |-> FALSE, data |-> d]

\* a file with an empty YAML document
EmptyFile == [exists |-> TRUE, yaml_ok |-> TRUE, empty |-> TRUE, data |-> EmptyDoc]

\* files that give no definition: rejected documents, a missing file, a YAML error
FailingFiles ==
    { LoadedFile(d) : d \in RejectedDocs }
        \cup { [exists |-> FALSE, yaml_ok |-> TRUE, empty |-> FALSE, data |-> EmptyDoc],
               [exists |-> TRUE, yaml_ok |-> FALSE, empty |-> FALSE, data |-> EmptyDoc],
               EmptyFile }

\* no entry point runs
DriverIdle ==
    /\ driver = "none"
    /\ output_dir = {}
    /\ exit_code = None

\* the class no emission is running for
NoClass ==
    [name |-> "", cpp_class |-> None, constructors |-> <<>>, base_classes |-> <<>>,
     fields |-> <<>>, methods |-> <<>>, auto_detect_properties |-> FALSE]

EmitIdle ==
    /\ cls = NoClass
    /\ phase = "idle"
    /\ mi = 0
    /\ registered_methods = {}
    /\ out = <<>>

(***************************************************************************)
(* The parser object and its operations.                                   *)
(***************************************************************************)
Init ==
    /\ \/ file \in FailingFiles
       \/ file = LoadedFile(EmptyDoc)
       \/ \E n \in 1..MaxClasses :
            \E k \in NamePatterns(n), shapes \in [1..n -> ClassShapes], fl \in FunctionLists :
                file = LoadedFile(WellFormedDoc(n, k, shapes, fl))
    /\ errors = <<>>
    /\ warnings = <<>>
    /\ idl = None
    /\ held = None
    /\ DriverIdle
    /\ ret = None
    /\ op = "init"
    /\ calls = 0
    /\ lines = <<>>
    /\ current_line = 0
    /\ pc = "top"
    /\ doc = EmptyILDDocument /\ BlockIdle
    /\ class_def = None
    /\ EmitIdle

ParseFile ==
    /\ op = "init"
    /\ LET r == ParseFileResult(file, errors, warnings)
       IN /\ idl' = r.idl
          /\ held' = IF r.idl # None THEN r.idl ELSE held
          /\ errors' = r.errors
          /\ warnings' = r.warnings
    /\ op' = "parse_file"
    /\ UNCHANGED <<file, ret, calls, ildVars, emitVars, blockVars, driverVars>>

Validate ==
    /\ held # None
    /\ op \in {"parse_file", "validate"}
    /\ calls < MaxValidateCalls
    /\ LET r == ValidateResult(held[1], errors, warnings)
       IN /\ ret' = Some(r.ret)
          /\ errors' = r.errors
          /\ warnings' = r.warnings
    /\ op' = "validate"
    /\ calls' = calls + 1
    /\ UNCHANGED <<file, idl, held, ildVars, emitVars, blockVars, driverVars>>

ParseIdl ==
    /\ op = "init"
    /\ \E p \in {ParseFileResult(file, <<>>, <<>>)} :
          LET r == ParseIdlResult(p)
          IN /\ idl' = r.idl
             /\ held' = r.idl
             /\ errors' = r.errors
             /\ warnings' = r.warnings
             /\ ret' = Some(r.idl # None)
    /\ op' = "parse_idl"
    /\ UNCHANGED <<file, calls, ildVars, emitVars, blockVars, driverVars>>

Next == ParseFile \/ Validate \/ ParseIdl

Spec == Init /\ [][Next]_vars

(***************************************************************************)
(* The two parsers that build classes: ILDParser.parse on DSL text and     *)
(* IDLParser.parse_file on a structured document.                          *)
(***************************************************************************)
\* the lines a DSL text is made of
LinePool ==
    { KwClass \o <<" ", "A", " ", "{">>,
      KwConstructor \o <<"(", ")">>,
      KwConstructor \o <<"(", "i", "n", "t", " ", "x", ",", " ", "i", "n", "t", ")">>,
      KwField \o <<" ", "x", " ", ":", " ", "i", "n", "t">>,
      KwField \o <<" ", "x">>,
      KwMethod \o <<" ", "f", "(", "i", "n", "t", " ", "x", ")", " ", ":", " ", "i", "n", "t",
                    " ", "a", "s", " ", "g">>,
      <<"}">> }

\* the parameter lists of a constructor entry of a structured document
CtorParamLists == { <<>>, <<[name |-> "x", type |-> "int"]>> }

\* a document with the one class A and the given constructor entries
CtorDoc(ctors) ==
    [EmptyDoc EXCEPT !.classes =
        <<[ClassDict(Some("A"), [bases |-> <<>>, cpp |-> None]) EXCEPT
             !.constructors = [i \in DOMAIN ctors |-> [parameters |-> ctors[i]]]]>>]

InitILD ==
    /\ \/ /\ \E n \in 0..MaxLines : \E ls \in [1..n -> LinePool] : lines = ls
          /\ file = LoadedFile(EmptyDoc)
          /\ op = "idle"
       \/ /\ lines = <<>>
          /\ \E k \in 0..MaxCtors : \E ctors \in [1..k -> CtorParamLists] :
                file = LoadedFile(CtorDoc(ctors))
          /\ op = "init"
    /\ errors = <<>>
    /\ warnings = <<>>
    /\ idl = None
    /\ held = None
    /\ DriverIdle
    /\ ret = None
    /\ calls = 0
    /\ current_line = 0
    /\ pc = "top"
    /\ doc = EmptyILDDocument /\ BlockIdle
    /\ class_def = None
    /\ EmitIdle

NextILD ==
    \/ ILDParseClassOpen
    \/ ILDSkipLine
    \/ ILDReturn
    \/ ILDClassEnd
    \/ ILDClassClose
    \/ ILDClassConstructor
    \/ ILDClassField
    \/ ILDClassMethod
    \/ ILDClassSkip
    \/ ParseFile

SpecILD == InitILD /\ [][NextILD]_vars

(***************************************************************************)
(* Whole DSL texts: ILDParser.parse on texts made of blocks.               *)
(***************************************************************************)
\* the blocks a DSL text is made of
BlockPool ==
    { \* a module block with a version line
      << <<"m", "o", "d", "u", "l", "e", " ", "g", "e", "o", "m", " ", "{">>,
         <<"v", "e", "r", "s", "i", "o", "n", ":", " ", "\"", "1", ".", "2", "\"">>,
         <<"}">> >>,
      \* a module block with a description line
      << <<"m", "o", "d", "u", "l", "e", " ", "g", "e", "o", "m", " ", "{">>,
         <<"d", "e", "s", "c", "r", "i", "p", "t", "i", "o", "n", ":", " ", "\"", "s", "h", "a", "p", "e", "s", "\"">>,
         <<"}">> >>,
      \* a module block with targets
      << <<"m", "o", "d", "u", "l", "e", " ", "g", "e", "o", "m", " ", "{">>,
         <<"a", "u", "t", "h", "o", "r", " ", "m", "e">>,
         <<"t", "a", "r", "g", "e", "t", "s", " ", "{">>,
         <<"p", "y", "t", "h", "o", "n", " ", "{">>,
         <<"o", "u", "t", "p", "u", "t", ":", " ", "\"", "g", "e", "o", "m", ".", "p", "y", "\"">>,
         <<"n", "o", "t", "e">>,
         <<"}">>,
         <<"s", "t", "r", "a", "y">>,
         <<"}">>,
         <<"}">> >>,
      \* a module block that the text ends in
      << <<"m", "o", "d", "u", "l", "e", " ", "g", "e", "o", "m", " ", "{">>,
         <<"t", "a", "r", "g", "e", "t", "s", " ", "{">>,
         <<"p", "y", "t", "h", "o", "n", " ", "{">>,
         <<"o", "u", "t", "p", "u", "t", ":", " ", "g", "e", "o", "m", ".", "p", "y">> >>,
      \* a module line without a name
      << <<"m", "o", "d", "u", "l", "e", " ", "{">> >>,
      \* an include statement
      << <<"i", "n", "c", "l", "u", "d", "e", " ", "\"", "g", "e", "o", "m", ".", "h", "\"">> >>,
      \* an include statement without quotes
      << <<"i", "n", "c", "l", "u", "d", "e", " ", "g", "e", "o", "m", ".", "h">> >>,
      \* a converters block
      << <<"c", "o", "n", "v", "e", "r", "t", "e", "r", "s", " ", "{">>,
         <<"v", "e", "c", "t", "o", "r", "<", "d", "o", "u", "b", "l", "e", ">">>,
         <<"}">> >>,
      \* a utilities block
      << <<"u", "t", "i", "l", "i", "t", "i", "e", "s", " ", "{">>,
         <<"h", "e", "l", "p", "e", "r">>,
         <<"}">> >>,
      \* a utilities block without closing brace
      << <<"u", "t", "i", "l", "i", "t", "i", "e", "s", " ", "{">>,
         <<"h", "e", "l", "p", "e", "r">> >>,
      \* a well-formed class
      << <<"c", "l", "a", "s", "s", " ", "B", " ", ":", " ", "A", " ", "{">>,
         <<"c", "o", "n", "s", "t", "r", "u", "c", "t", "o", "r", "(", "i", "n", "t", " ", "x", ")">>,
         <<"f", "i", "e", "l", "d", " ", "x", " ", ":", " ", "i", "n", "t">>,
         <<"m", "e", "t", "h", "o", "d", " ", "f", "(", ")", " ", ":", " ", "i", "n", "t">>,
         <<"n", "o", "t", "e">>,
         <<"}">> >>,
      \* a class with a field line that does not match the grammar
      << <<"c", "l", "a", "s", "s", " ", "A", " ", "{">>,
         <<"f", "i", "e", "l", "d", " ", "x">>,
         <<"}">> >>,
      \* a class with a method line that does not match the grammar
      << <<"c", "l", "a", "s", "s", " ", "A", " ", "{">>,
         <<"m", "e", "t", "h", "o", "d", " ", "f">>,
         <<"}">> >>,
      \* a class header that the text ends after
      << <<"c", "l", "a", "s", "s", " ", "C", " ", "{">> >>,
      \* a class line without a name
      << <<"c", "l", "a", "s", "s", " ", "{">> >>,
      \* a well-formed function
      << <<"f", "u", "n", "c", "t", "i", "o", "n", " ", "f", "(", "i", "n", "t", " ", "x", ",", " ", "d", "o", "u", "b", "l", "e", ")", " ", ":", " ", "i", "n", "t", " ", "a", "s", " ", "g">> >>,
      \* a function line that does not match the grammar
      << <<"f", "u", "n", "c", "t", "i", "o", "n", " ", "f">> >>,
      \* a line no block starts with
      << <<"s", "t", "r", "a", "y">> >> }

\* the lines of the blocks, one block after the other
RECURSIVE Concat(_)
Concat(bs) == IF bs = <<>> THEN <<>> ELSE Head(bs) \o Concat(Tail(bs))

\* a parser on a text of up to mb blocks
InitILDDocUpTo(mb) ==
    /\ \E n \in 0..mb : \E bs \in [1..n -> BlockPool] : lines = Concat(bs)
    /\ file = LoadedFile(EmptyDoc)
    /\ op = "idle"
    /\ errors = <<>>
    /\ warnings = <<>>
    /\ idl = None
    /\ held = None
    /\ DriverIdle
    /\ ret = None
    /\ calls = 0
    /\ current_line = 0
    /\ pc = "top"
    /\ doc = EmptyILDDocument /\ BlockIdle
    /\ class_def = None
    /\ EmitIdle

NextILDDoc ==
    \/ ILDParseModuleOpen
    \/ ILDModuleReturn
    \/ ILDModuleVersion
    \/ ILDModuleDescription
    \/ ILDModuleTargetsOpen
    \/ ILDModuleSkip
    \/ ILDTargetsReturn
    \/ ILDTargetOpen
    \/ ILDTargetsSkip
    \/ ILDTargetConfigReturn
    \/ ILDTargetConfigEntry
    \/ ILDTargetConfigSkip
    \/ ILDParseInclude
    \/ ILDConvertersOpen
    \/ ILDConvertersAdd
    \/ ILDConvertersReturn
    \/ ILDParseClassOpen
    \/ ILDClassEnd
    \/ ILDClassClose
    \/ ILDClassConstructor
    \/ ILDClassField
    \/ ILDClassMethod
    \/ ILDClassSkip
    \/ ILDParseFunction
    \/ ILDUtilitiesOpen
    \/ ILDUtilitiesAdd
    \/ ILDUtilitiesReturn
    \/ ILDSkipLine
    \/ ILDReturn

InitILDDoc == InitILDDocUpTo(MaxBlocks)

SpecILDDoc == InitILDDoc /\ [][NextILDDoc]_vars

\* the interpreter runs parse to its end: a step is taken whenever one is possible
SpecILDDocFair == InitILDDocUpTo(MaxFairBlocks) /\ [][NextILDDoc]_vars /\ WF_vars(NextILDDoc)

(***************************************************************************)
(* _parse_parameter_list on parameter strings: a text of one function      *)
(* line whose parameter string is made of entries joined by commas.        *)
(***************************************************************************)
\* entries: type and name, a type alone, a qualified type after a blank,
\* nothing, a blank, a type alone after a blank
EntryPool ==
    { <<"i", "n", "t", " ", "x">>,
      <<"d", "o", "u", "b", "l", "e">>,
      <<" ", "c", "o", "n", "s", "t", " ", "T", "&", " ", "v">>,
      <<>>,
      <<" ">>,
      <<" ", "i", "n", "t", " ">> }

\* ','.join(entries)
RECURSIVE JoinEntries(_)
JoinEntries(es) ==
    IF Len(es) = 1 THEN es[1] ELSE es[1] \o <<",">> \o JoinEntries(Tail(es))

\* the line  function f(<params_str>) : int
FunctionLineOf(params_str) ==
    <<"f", "u", "n", "c", "t", "i", "o", "n", " ", "f", "(">> \o params_str
        \o <<")", " ", ":", " ", "i", "n", "t">>

InitParams ==
    /\ \E n \in 1..MaxEntries : \E es \in [1..n -> EntryPool] :
          lines = <<FunctionLineOf(JoinEntries(es))>>
    /\ file = LoadedFile(EmptyDoc)
    /\ op = "idle"
    /\ errors = <<>>
    /\ warnings = <<>>
    /\ idl = None
    /\ held = None
    /\ DriverIdle
    /\ ret = None
    /\ calls = 0
    /\ current_line = 0
    /\ pc = "top"
    /\ doc = EmptyILDDocument /\ BlockIdle
    /\ class_def = None
    /\ EmitIdle

NextParams == ILDParseFunction \/ ILDReturn

SpecParams == InitParams /\ [][NextParams]_vars

(***************************************************************************)
(* Emission of the registration code of one class:                         *)
(* _write_class_registration and _generate_method_pointer.                 *)
(* A written call is a record: the call, the quoted name, the template     *)
(* arguments, the pointer expressions, and (for a method) the index of the *)
(* method of cls.methods that it was written for.                          *)
(***************************************************************************)
Reg(call, name, targs, ptr, idx) ==
    [call |-> call, name |-> name, targs |-> targs, ptr |-> ptr, idx |-> idx]

\* "x or y" on an optional string: None and "" are falsy
Truthy(o) == o # None /\ o[1] # ""

\* [p.type for p in parameters]
ParamTypes(parameters) == [i \in DOMAIN parameters |-> Str(parameters[i].type)]

\* method.cpp_name or method.name
MethodCppName(method) == IF Truthy(method.cpp_name) THEN method.cpp_name[1] ELSE method.name

\* str(method.const)
BoolStr(b) == IF b THEN "True" ELSE "False"

\* a signature that keeps the const qualifier on a static method
PointerSignatureConstOnStatic(class_name, method, is_static) ==
    LET param_types == Join(ParamTypes(method.parameters), ", ")
    IN (IF is_static
        THEN method.returns \o " (*)(" \o param_types \o ")"
        ELSE method.returns \o " (" \o class_name \o "::*)(" \o param_types \o ")")
       \o (IF method.const THEN " const" ELSE "")

\* the signature of _generate_method_pointer
PointerSignature(class_name, method, is_static) ==
    LET param_types == Join(ParamTypes(method.parameters), ", ")
    IN IF is_static
       THEN method.returns \o " (*)(" \o param_types \o ")"
       ELSE method.returns \o " (" \o class_name \o "::*)(" \o param_types \o ")"
               \o (IF method.const THEN " const" ELSE "")

\* a pointer generator that casts whether or not the name is overloaded
GenerateMethodPointerAlwaysCast(class_name, method, is_overloaded, is_static) ==
    "static_cast<" \o PointerSignature(class_name, method, is_static) \o ">(&"
        \o class_name \o "::" \o MethodCppName(method) \o ")"

\* _generate_method_pointer
GenerateMethodPointer(class_name, method, is_overloaded, is_static) ==
    IF ~is_overloaded
    THEN "&" \o class_name \o "::" \o MethodCppName(method)
    ELSE "static_cast<" \o PointerSignature(class_name, method, is_static) \o ">(&"
            \o class_name \o "::" \o MethodCppName(method) \o ")"

\* the part of the suffix that one parameter type gives
SimplifyType(ptype) ==
    LET a == Strip(Remove(Remove(Remove(ptype, <<"c", "o", "n", "s", "t", " ">>), <<"&">>), <<"*">>))
        b == Remove(a, <<"s", "t", "d", ":", ":">>)
        c == IF Contains(b, <<":", ":">>) THEN LastPiece(b, <<":", ":">>) ELSE b
        d == IF Contains(c, <<"<">>) THEN SubSeq(c, 1, FindChar(c, "<", 1) - 1) ELSE c
    IN Lower(d)

\* the suffix of an overloaded method
Suffix(method) ==
    IF Len(method.parameters) = 0
    THEN "_void"
    ELSE "_" \o Join([i \in DOMAIN method.parameters |->
                        Str(SimplifyType(method.parameters[i].type))], "_")

\* len(method_groups[method.name]) > 1
IsOverloaded(c, method) ==
    Cardinality({i \in DOMAIN c.methods : c.methods[i].name = method.name}) > 1

\* a key that leaves the const flag out
MethodKeyWithoutConst(method) ==
    method.name \o "::" \o Join(ParamTypes(method.parameters), ",")

\* method_key
MethodKey(method) ==
    method.name \o "::" \o Join(ParamTypes(method.parameters), ",") \o "::" \o BoolStr(method.const)

PyMethodName(c, method) ==
    IF IsOverloaded(c, method) THEN method.name \o Suffix(method) ELSE method.name

\* a registration that never casts the pointer of a virtual or override method
MethodRegistrationPlainVirtual(c, method, idx) ==
    LET over == IsOverloaded(c, method)
        py == PyMethodName(c, method)
    IN IF method.pure_virtual
       THEN Reg("pure_virtual_method", py,
                Join(<<method.returns>> \o ParamTypes(method.parameters), ", "), <<>>, idx)
       ELSE IF method.static
       THEN Reg("static_method", py, "", <<GenerateMethodPointer(ClassCppName(c), method, over, TRUE)>>, idx)
       ELSE IF method.override
       THEN Reg("override_method", py, "", <<GenerateMethodPointer(ClassCppName(c), method, FALSE, FALSE)>>, idx)
       ELSE IF method.virtual
       THEN Reg("virtual_method", py, "", <<GenerateMethodPointer(ClassCppName(c), method, FALSE, FALSE)>>, idx)
       ELSE Reg("method", py, "", <<GenerateMethodPointer(ClassCppName(c), method, over, FALSE)>>, idx)

\* a registration that looks at the static flag before the pure_virtual flag
MethodRegistrationStaticFirst(c, method, idx) ==
    LET over == IsOverloaded(c, method)
        py == PyMethodName(c, method)
    IN IF method.static
       THEN Reg("static_method", py, "", <<GenerateMethodPointer(ClassCppName(c), method, over, TRUE)>>, idx)
       ELSE IF method.pure_virtual
       THEN Reg("pure_virtual_method", py,
                Join(<<method.returns>> \o ParamTypes(method.parameters), ", "), <<>>, idx)
       ELSE IF method.override
       THEN Reg("override_method", py, "", <<GenerateMethodPointer(ClassCppName(c), method, over, FALSE)>>, idx)
       ELSE IF method.virtual
       THEN Reg("virtual_method", py, "", <<GenerateMethodPointer(ClassCppName(c), method, over, FALSE)>>, idx)
       ELSE Reg("method", py, "", <<GenerateMethodPointer(ClassCppName(c), method, over, FALSE)>>, idx)

\* the call written for one method that is not skipped
MethodRegistration(c, method, idx) ==
    LET over == IsOverloaded(c, method)
        py == PyMethodName(c, method)
    IN IF method.pure_virtual
       THEN Reg("pure_virtual_method", py,
                Join(<<method.returns>> \o ParamTypes(method.parameters), ", "), <<>>, idx)
       ELSE IF method.static
       THEN Reg("static_method", py, "", <<GenerateMethodPointer(ClassCppName(c), method, over, TRUE)>>, idx)
       ELSE IF method.override
       THEN Reg("override_method", py, "", <<GenerateMethodPointer(ClassCppName(c), method, over, FALSE)>>, idx)
       ELSE IF method.virtual
       THEN Reg("virtual_method", py, "", <<GenerateMethodPointer(ClassCppName(c), method, over, FALSE)>>, idx)
       ELSE Reg("method", py, "", <<GenerateMethodPointer(ClassCppName(c), method, over, FALSE)>>, idx)

ConstructorRegistration(ctor) ==
    Reg("constructor", "", Join(ParamTypes(ctor.parameters), ", "), <<>>, 0)

BaseRegistration(base) ==
    Reg(IF base.inheritance_type = "virtual" THEN "virtually_inherits_from" ELSE "inherits_from",
        "", base.name, <<>>, 0)

\* a field registration that does not look at the access mode
FieldRegistrationAnyAccess(c, field) ==
    LET cn == ClassCppName(c)
        cpp_field_name == IF Truthy(field.cpp_name) THEN field.cpp_name[1] ELSE field.name
    IN IF Truthy(field.getter) /\ Truthy(field.setter)
       THEN Reg("property", field.name, "",
                <<"&" \o cn \o "::" \o field.getter[1], "&" \o cn \o "::" \o field.setter[1]>>, 0)
       ELSE IF Truthy(field.getter)
       THEN Reg("readonly_property", field.name, "", <<"&" \o cn \o "::" \o field.getter[1]>>, 0)
       ELSE IF Truthy(field.setter)
       THEN Reg("writeonly_property", field.name, "", <<"&" \o cn \o "::" \o field.setter[1]>>, 0)
       ELSE Reg("field", field.name, "", <<"&" \o cn \o "::" \o cpp_field_name>>, 0)

\* the call written for one field
FieldRegistration(c, field) ==
    LET cn == ClassCppName(c)
        cpp_field_name == IF Truthy(field.cpp_name) THEN field.cpp_name[1] ELSE field.name
    IN IF Truthy(field.getter) /\ Truthy(field.setter)
       THEN Reg("property", field.name, "",
                <<"&" \o cn \o "::" \o field.getter[1], "&" \o cn \o "::" \o field.setter[1]>>, 0)
       ELSE IF Truthy(field.getter) /\ field.access = "ro"
       THEN Reg("readonly_property", field.name, "", <<"&" \o cn \o "::" \o field.getter[1]>>, 0)
       ELSE IF Truthy(field.setter) /\ field.access = "wo"
       THEN Reg("writeonly_property", field.name, "", <<"&" \o cn \o "::" \o field.setter[1]>>, 0)
       ELSE Reg("field", field.name, "", <<"&" \o cn \o "::" \o cpp_field_name>>, 0)

\* the comment, ROSETTA_REGISTER_CLASS, constructors, base classes and fields
WriteClassHead ==
    /\ phase = "start"
    /\ out' = <<Reg("// Register", cls.name, "", <<>>, 0),
                Reg("ROSETTA_REGISTER_CLASS", ClassCppName(cls), "", <<>>, 0)>>
              \o [i \in DOMAIN cls.constructors |-> ConstructorRegistration(cls.constructors[i])]
              \o [i \in DOMAIN cls.base_classes |-> BaseRegistration(cls.base_classes[i])]
              \o [i \in DOMAIN cls.fields |-> FieldRegistration(cls, cls.fields[i])]
    /\ registered_methods' = {}
    /\ mi' = 1
    /\ phase' = "methods"
    /\ UNCHANGED <<cls, idlVars, driverVars, ildVars, blockVars>>

\* one turn of the method loop: the key was registered already, continue
WriteMethodSkip ==
    /\ phase = "methods"
    /\ mi <= Len(cls.methods)
    /\ MethodKey(cls.methods[mi]) \in registered_methods
    /\ mi' = mi + 1
    /\ UNCHANGED <<cls, phase, registered_methods, out, idlVars, driverVars, ildVars, blockVars>>

\* one turn of the method loop: the key is new, the method is written
WriteMethod ==
    /\ phase = "methods"
    /\ mi <= Len(cls.methods)
    /\ MethodKey(cls.methods[mi]) \notin registered_methods
    /\ registered_methods' = registered_methods \cup {MethodKey(cls.methods[mi])}
    /\ out' = Append(out, MethodRegistration(cls, cls.methods[mi], mi))
    /\ mi' = mi + 1
    /\ UNCHANGED <<cls, phase, idlVars, driverVars, ildVars, blockVars>>

\* after the loop: auto_detect_properties and the closing ";"
WriteClassTail ==
    /\ phase = "methods"
    /\ mi > Len(cls.methods)
    /\ out' = out \o (IF cls.auto_detect_properties
                      THEN <<Reg("auto_detect_properties", "", "", <<>>, 0)>> ELSE <<>>)
                  \o <<Reg(";", "", "", <<>>, 0)>>
    /\ phase' = "done"
    /\ UNCHANGED <<cls, mi, registered_methods, idlVars, driverVars, ildVars, blockVars>>

\* parameter types
TDouble == <<"d", "o", "u", "b", "l", "e">>

TConstVector3DRef == <<"c", "o", "n", "s", "t", " ", "V", "e", "c", "t", "o", "r", "3", "D", "&">>

TVector3DPtr == <<"V", "e", "c", "t", "o", "r", "3", "D", "*">>

TIntPtr == <<"i", "n", "t", "*">>

TString == <<"s", "t", "d", ":", ":", "s", "t", "r", "i", "n", "g">>

TVectorOfT == <<"s", "t", "d", ":", ":", "v", "e", "c", "t", "o", "r", "<", "n", "s", ":", ":", "T", ">">>

Param(i, t) == [name |-> "arg" \o IntToStr(i), type |-> t]

Params(ts) == [i \in DOMAIN ts |-> Param(i, ts[i])]

\* name and parameter types of the methods of the classes written
Signatures ==
    { [name |-> "area", types |-> <<>>],
      [name |-> "area", types |-> <<TDouble>>],
      [name |-> "area", types |-> <<TConstVector3DRef>>],
      [name |-> "area", types |-> <<TVector3DPtr>>],
      [name |-> "setScale", types |-> <<TConstVector3DRef>>],
      [name |-> "setScale", types |-> <<TDouble, TDouble>>] }

Flags(const, static, virtual, override, pure_virtual) ==
    [const |-> const, static |-> static, virtual |-> virtual, override |-> override,
     pure_virtual |-> pure_virtual]

\* return type, flags and cpp_name of the methods of the classes written
Decorations ==
    { [returns |-> "double", flags |-> Flags(FALSE, FALSE, FALSE, FALSE, FALSE), cpp_name |-> None],
      [returns |-> "double", flags |-> Flags(TRUE, FALSE, FALSE, FALSE, FALSE), cpp_name |-> None],
      [returns |-> "void", flags |-> Flags(TRUE, TRUE, FALSE, FALSE, FALSE), cpp_name |-> None],
      [returns |-> "double", flags |-> Flags(FALSE, FALSE, FALSE, FALSE, TRUE), cpp_name |-> None],
      [returns |-> "double", flags |-> Flags(FALSE, FALSE, TRUE, FALSE, FALSE), cpp_name |-> None],
      [returns |-> "double", flags |-> Flags(FALSE, FALSE, FALSE, TRUE, FALSE), cpp_name |-> None],
      [returns |-> "void", flags |-> Flags(FALSE, FALSE, FALSE, FALSE, FALSE), cpp_name |-> Some("impl")] }

\* a Method as Method.from_dict builds it
MethodOf(sig, deco) ==
    [name |-> sig.name, returns |-> deco.returns, parameters |-> Params(sig.types),
     const |-> deco.flags.const, virtual |-> deco.flags.virtual,
     pure_virtual |-> deco.flags.pure_virtual, override |-> deco.flags.override,
     static |-> deco.flags.static, cpp_name |-> deco.cpp_name]

MethodPool == { MethodOf(sig, deco) : sig \in Signatures, deco \in Decorations }

\* the parameter types of the overloads whose suffixes are looked at
SuffixTypes == { TDouble, TConstVector3DRef, TIntPtr, TString, TVectorOfT }

PlainDecoration ==
    [returns |-> "double", flags |-> Flags(FALSE, FALSE, FALSE, FALSE, FALSE), cpp_name |-> None]

\* a class with one constructor, no base and no field
ClassOf(name, cpp_class, methods) ==
    [name |-> name, cpp_class |-> cpp_class, constructors |-> <<[parameters |-> <<>>]>>,
     base_classes |-> <<>>, fields |-> <<>>, methods |-> methods,
     auto_detect_properties |-> FALSE]

\* the fields of the classes written: every getter / setter / access / cpp_name
\* combination
FieldPool ==
    { [name |-> "x", type |-> "double", access |-> a, cpp_name |-> cn, getter |-> g, setter |-> st] :
        a \in {"rw", "ro", "wo"}, cn \in {None, Some("x_")},
        g \in {None, Some("getX")}, st \in {None, Some("setX")} }

InitEmit ==
    /\ \/ \E cpp \in {None, Some("geom::Rect")} :
            \E n \in 0..MaxMethods : \E ms \in [1..n -> MethodPool] :
                cls = ClassOf("Rectangle", cpp, ms)
       \/ \E n1, n2 \in 0..MaxParams :
            \E ts1 \in [1..n1 -> SuffixTypes], ts2 \in [1..n2 -> SuffixTypes] :
                cls = ClassOf("Rectangle", None,
                              <<MethodOf([name |-> "area", types |-> ts1], PlainDecoration),
                                MethodOf([name |-> "area", types |-> ts2], PlainDecoration)>>)
       \/ \E cpp \in {None, Some("geom::Rect")} :
            \E n \in 1..MaxFields : \E fs \in [1..n -> FieldPool] :
                cls = [ClassOf("Rectangle", cpp, <<>>) EXCEPT !.fields = fs]
       \/ \E c, st, v, o, pv \in BOOLEAN : \E n \in 1..2 :
            cls = ClassOf("Rectangle", None,
                          SubSeq(<<MethodOf([name |-> "area", types |-> <<TDouble>>],
                                            [PlainDecoration EXCEPT !.flags = Flags(c, st, v, o, pv)]),
                                   MethodOf([name |-> "area", types |-> <<>>], PlainDecoration)>>,
                                 1, n))
       \/ \E ts \in {<<>>, <<TDouble>>} :
            cls = ClassOf("Rectangle", None,
                          <<MethodOf([name |-> "area", types |-> <<TDouble>>], PlainDecoration),
                            MethodOf([name |-> "area", types |-> <<>>], PlainDecoration),
                            MethodOf([name |-> "area_double", types |-> ts], PlainDecoration)>>)
    /\ phase = "start"
    /\ mi = 0
    /\ registered_methods = {}
    /\ out = <<>>
    /\ file = LoadedFile(EmptyDoc)
    /\ errors = <<>>
    /\ warnings = <<>>
    /\ idl = None
    /\ held = None
    /\ DriverIdle
    /\ ret = None
    /\ op = "idle"
    /\ calls = 0
    /\ lines = <<>>
    /\ current_line = 0
    /\ pc = "top"
    /\ doc = EmptyILDDocument /\ BlockIdle
    /\ class_def = None

NextEmit == WriteClassHead \/ WriteMethodSkip \/ WriteMethod \/ WriteClassTail

SpecEmit == InitEmit /\ [][NextEmit]_vars

(***************************************************************************)
(* The converter registrations of the two JavaScript generators            *)
(* (ild/js_generator.py and idl/js_generator.py, generate_binding_cpp),    *)
(* one loop iteration per step.  The generators read the converter texts   *)
(* character by character: they are kept as sequences of characters.       *)
(***************************************************************************)
DigitSeq == <<"0", "1", "2", "3", "4", "5", "6", "7", "8", "9">>

\* the characters of the converter texts in code point order
CodePointOrder == <<" ", ",">> \o DigitSeq \o <<":", "<", ">">> \o UpperSeq \o <<"_">> \o LowerSeq

Ord(c) == CHOOSE i \in DOMAIN CodePointOrder : CodePointOrder[i] = c

\* a < b for Python strings
StrLess(a, b) ==
    \E k \in 1..(Min(Len(a), Len(b)) + 1) :
        /\ SubSeq(a, 1, k - 1) = SubSeq(b, 1, k - 1)
        /\ \/ k > Len(a) /\ k <= Len(b)
           \/ k <= Len(a) /\ k <= Len(b) /\ Ord(a[k]) < Ord(b[k])

\* sorted(S) for a set of strings
Sorted(S) ==
    [i \in 1..Cardinality(S) |-> CHOOSE c \in S : Cardinality({d \in S : StrLess(d, c)}) = i - 1]

KwVectorLt == <<"v", "e", "c", "t", "o", "r", "<">>

KwOptionalLt == <<"o", "p", "t", "i", "o", "n", "a", "l", "<">>

KwMapLt == <<"m", "a", "p", "<">>

\* a map branch that splits at the first comma only
ILDConverterRegistrationFirstComma(converter) ==
    IF StartsWith(converter, KwMapLt)
    THEN LET inner == SubSeq(converter, 5, Len(converter) - 1)
             k == FindChar(inner, ",", 1)
         IN IF k <= Len(inner)
            THEN <<"    register_map_converter<" \o Str(Strip(SubSeq(inner, 1, k - 1))) \o ", "
                      \o Str(Strip(SubSeq(inner, k + 1, Len(inner)))) \o ">(gen);">>
            ELSE <<>>
    ELSE <<>>

\* ild/js_generator.py, the body of  for converter in sorted(self.doc.converters):
\* the lines added to the code for one converter
ILDConverterRegistration(converter) ==
    IF StartsWith(converter, KwVectorLt)
    THEN <<"    register_vector_converter<"
              \o Str(SubSeq(converter, 8, Len(converter) - 1)) \o ">(gen);">>
    ELSE IF StartsWith(converter, KwOptionalLt)
    THEN <<"    register_optional_converter<"
              \o Str(SubSeq(converter, 10, Len(converter) - 1)) \o ">(gen);">>
    ELSE IF StartsWith(converter, KwMapLt)
    THEN LET inner == SubSeq(converter, 5, Len(converter) - 1)
             parts == Split(inner, ",")
         IN IF Len(parts) = 2
            THEN <<"    register_map_converter<" \o Str(Strip(parts[1])) \o ", "
                      \o Str(Strip(parts[2])) \o ">(gen);">>
            ELSE <<>>
    ELSE <<>>

\* idl/js_generator.py, _extract_template_arg
ExtractTemplateArg(type_str) ==
    LET start == FindChar(type_str, "<", 1)
        end == RFindChar(type_str, ">", Len(type_str))
    IN IF start <= Len(type_str) /\ end >= 1
       THEN Strip(SubSeq(type_str, start + 1, end - 1))
       ELSE type_str

\* idl/js_generator.py, the body of  for converter in self.interface.converters:
IDLConverterRegistration(converter) ==
    IF converter.kind = "vector"
    THEN <<"    register_vector_converter<" \o Str(ExtractTemplateArg(converter.type)) \o ">(gen);">>
    ELSE IF converter.kind = "optional"
    THEN <<"    register_optional_converter<" \o Str(ExtractTemplateArg(converter.type)) \o ">(gen);">>
    ELSE IF converter.kind = "array"
    THEN <<"    // TODO: register array converter for " \o Str(converter.type)>>
    ELSE IF converter.kind = "map"
    THEN <<"    // TODO: register map converter for " \o Str(converter.type)>>
    ELSE <<>>

\* one turn of the converter loop of ild/js_generator.py
ILDWriteConverter ==
    /\ phase = "ild_converters"
    /\ mi <= Cardinality(doc.converters)
    /\ out' = out \o ILDConverterRegistration(Sorted(doc.converters)[mi])
    /\ mi' = mi + 1
    /\ UNCHANGED <<cls, phase, registered_methods, idlVars, driverVars, ildVars, blockVars>>

\* the converter loop of ild/js_generator.py is over
ILDConvertersWritten ==
    /\ phase = "ild_converters"
    /\ mi > Cardinality(doc.converters)
    /\ out' = Append(out, "    // Bind classes")
    /\ phase' = "end"
    /\ UNCHANGED <<cls, mi, registered_methods, idlVars, driverVars, ildVars, blockVars>>

\* one turn of the converter loop of idl/js_generator.py
IDLWriteConverter ==
    /\ phase = "idl_converters"
    /\ mi <= Len(idl[1].converters)
    /\ out' = out \o IDLConverterRegistration(idl[1].converters[mi])
    /\ mi' = mi + 1
    /\ UNCHANGED <<cls, phase, registered_methods, idlVars, driverVars, ildVars, blockVars>>

\* the converter loop of idl/js_generator.py is over
IDLConvertersWritten ==
    /\ phase = "idl_converters"
    /\ mi > Len(idl[1].converters)
    /\ out' = Append(out, "}")
    /\ phase' = "end"
    /\ UNCHANGED <<cls, mi, registered_methods, idlVars, driverVars, ildVars, blockVars>>

\* ild/js_generator.py, _generate_inspect_type: the lines of the text returned
ILDInspectTypeBlock ==
    << "",
       "    // Add utility to inspect types",
       "    auto inspect_type = [](const Napi::CallbackInfo &info) -> Napi::Value {",
       "        Napi::Env env = info.Env();",
       "",
       "        if (info.Length() < 1 || !info[0].IsString()) {",
       "            Napi::TypeError::New(env, \"Expected type name as string\").ThrowAsJavaScriptException();",
       "            return env.Undefined();",
       "        }",
       "",
       "        std::string     type_name = info[0].As<Napi::String>().Utf8Value();",
       "        const TypeInfo *type_info = TypeRegistry::instance().get_by_name(type_name);",
       "",
       "        if (!type_info) {",
       "            return env.Null();",
       "        }",
       "",
       "        Napi::Object result = Napi::Object::New(env);",
       "        result.Set(\"name\", Napi::String::New(env, type_info->name));",
       "        result.Set(\"fullName\", Napi::String::New(env, type_info->full_name()));",
       "        result.Set(\"size\", Napi::Number::New(env, type_info->size));",
       "        result.Set(\"alignment\", Napi::Number::New(env, type_info->alignment));",
       "        result.Set(\"isTemplate\", Napi::Boolean::New(env, type_info->is_template));",
       "        result.Set(\"isConst\", Napi::Boolean::New(env, type_info->is_const));",
       "        result.Set(\"isPointer\", Napi::Boolean::New(env, type_info->is_pointer));",
       "        result.Set(\"isNumeric\", Napi::Boolean::New(env, type_info->is_numeric()));",
       "",
       "        return result;",
       "    };",
       "",
       "    gen.exports.Set(\"inspectType\", Napi::Function::New(gen.env, inspect_type, \"inspectType\"));" >>

\* idl/js_generator.py: the lines added when utilities.type_inspection is set
IDLInspectTypeBlock ==
    << "    // Add type inspection utility",
       "    auto inspect_type = [](const Napi::CallbackInfo &info) -> Napi::Value {",
       "        Napi::Env env = info.Env();",
       "        if (info.Length() < 1 || !info[0].IsString()) {",
       "            Napi::TypeError::New(env, \"Expected type name as string\").ThrowAsJavaScriptException();",
       "            return env.Undefined();",
       "        }",
       "        std::string type_name = info[0].As<Napi::String>().Utf8Value();",
       "        const TypeInfo *type_info = TypeRegistry::instance().get_by_name(type_name);",
       "        if (!type_info) {",
       "            return env.Null();",
       "        }",
       "        Napi::Object result = Napi::Object::New(env);",
       "        result.Set(\"name\", Napi::String::New(env, type_info->name));",
       "        result.Set(\"fullName\", Napi::String::New(env, type_info->full_name()));",
       "        result.Set(\"size\", Napi::Number::New(env, type_info->size));",
       "        result.Set(\"alignment\", Napi::Number::New(env, type_info->alignment));",
       "        result.Set(\"isTemplate\", Napi::Boolean::New(env, type_info->is_template));",
       "        result.Set(\"isConst\", Napi::Boolean::New(env, type_info->is_const));",
       "        result.Set(\"isPointer\", Napi::Boolean::New(env, type_info->is_pointer));",
       "        result.Set(\"isNumeric\", Napi::Boolean::New(env, type_info->is_numeric()));",
       "        return result;",
       "    };",
       "    gen.exports.Set(\"inspectType\", Napi::Function::New(gen.env, inspect_type, \"inspectType\"));",
       "" >>

\* ild/js_generator.py: the bind_classes line, the free functions, the
\* utilities and the end of the module
ILDBindingTail(d) ==
    <<"    gen.bind_classes<" \o Join([i \in DOMAIN d.classes |-> d.classes[i].name], ", ") \o ">();",
      "">>
      \o [i \in DOMAIN d.functions |-> "    // TODO: Bind function " \o d.functions[i].name]
      \o (IF \E i \in DOMAIN d.utilities : d.utilities[i] = "inspect_type"
          THEN ILDInspectTypeBlock ELSE <<>>)
      \o <<"", "    gen.add_utilities();", "}", "END_JS_MODULE();">>

\* class_list of idl/js_generator.py, one line per class, commas between
IDLClassList(d) ==
    [i \in DOMAIN d.classes |->
        "        " \o (IF Truthy(d.classes[i].cpp_class) THEN d.classes[i].cpp_class[1]
                        ELSE d.classes[i].name)
                   \o (IF i < Len(d.classes) THEN "," ELSE "")]

\* idl/js_generator.py: the module initialization, the class list, the
\* utilities and the end of the module
IDLBindingTail(d) ==
    <<"",
      "// " \o "============================================================================",
      "// N-API MODULE INITIALIZATION",
      "// " \o "============================================================================",
      "",
      "BEGIN_JS_MODULE(gen) {",
      "    // Register classes",
      "    register_classes();",
      "",
      "    // Register type converters",
      "    register_converters(gen);",
      "",
      "    // Bind classes",
      "    gen.bind_classes<">>
      \o IDLClassList(d)
      \o <<"    >();", "", "    // Add custom converters here if needed", "">>
      \o (IF d.utilities.type_inspection THEN IDLInspectTypeBlock ELSE <<>>)
      \o (IF d.utilities.list_classes \/ d.utilities.version_info
          THEN <<"    // Add utility functions", "    gen.add_utilities();">> ELSE <<>>)
      \o <<"}", "END_JS_MODULE()">>

\* ild/js_generator.py: the rest of generate_binding_cpp after the converters
ILDWriteTail ==
    /\ phase = "end"
    /\ idl = None
    /\ out' = out \o ILDBindingTail(doc)
    /\ phase' = "written"
    /\ UNCHANGED <<cls, mi, registered_methods, idlVars, driverVars, ildVars, blockVars>>

\* idl/js_generator.py: the rest of generate_binding_cpp after the converters
IDLWriteTail ==
    /\ phase = "end"
    /\ idl # None
    /\ out' = out \o IDLBindingTail(idl[1])
    /\ phase' = "written"
    /\ UNCHANGED <<cls, mi, registered_methods, idlVars, driverVars, ildVars, blockVars>>

\* converter lines of a DSL text
ILDConverterPool ==
    { <<"v", "e", "c", "t", "o", "r", "<", "d", "o", "u", "b", "l", "e", ">">>,
      <<"o", "p", "t", "i", "o", "n", "a", "l", "<", "i", "n", "t", ">">>,
      <<"m", "a", "p", "<", "s", "t", "r", "i", "n", "g", ",", " ", "C", "o", "l", "o", "r", ">">>,
      <<"m", "a", "p", "<", "s", "t", "r", "i", "n", "g", ",", " ", "p", "a", "i", "r", "<", "i", "n", "t", ",", "i", "n", "t", ">", ">">>,
      <<"m", "a", "p", "<", "i", "n", "t", ",", "i", "n", "t", ">">>,
      <<"s", "e", "t", "<", "i", "n", "t", ">">> }

\* converter entries of a structured document
IDLConverterPool ==
    { [type |-> <<"s", "t", "d", ":", ":", "v", "e", "c", "t", "o", "r", "<", "V", "e", "c", "t", "o", "r", "3", "D", ">">>, kind |-> "vector"],
      [type |-> <<"s", "t", "d", ":", ":", "o", "p", "t", "i", "o", "n", "a", "l", "<", "i", "n", "t", ">">>, kind |-> "optional"],
      [type |-> <<"s", "t", "d", ":", ":", "a", "r", "r", "a", "y", "<", "d", "o", "u", "b", "l", "e", ",", " ", "3", ">">>, kind |-> "array"],
      [type |-> <<"s", "t", "d", ":", ":", "m", "a", "p", "<", "s", "t", "d", ":", ":", "s", "t", "r", "i", "n", "g", ",", " ", "C", "o", "l", "o", "r", ">">>, kind |-> "map"],
      [type |-> <<"s", "t", "d", ":", ":", "m", "a", "p", "<", "s", "t", "d", ":", ":", "s", "t", "r", "i", "n", "g", ",", " ", "s", "t", "d", ":", ":", "p", "a", "i", "r", "<", "i", "n", "t", ",", "i", "n", "t", ">", ">">>, kind |-> "map"] }

\* the names a utilities block may list
UtilInspectType == <<"i", "n", "s", "p", "e", "c", "t", "_", "t", "y", "p", "e">>

UtilListClasses == <<"l", "i", "s", "t", "_", "c", "l", "a", "s", "s", "e", "s">>

UtilVersionInfo == <<"v", "e", "r", "s", "i", "o", "n", "_", "i", "n", "f", "o">>

\* the utility lines of a DSL text: every choice of the three names
ILDUtilityLines ==
    { <<>>, <<UtilInspectType>>, <<UtilListClasses>>, <<UtilVersionInfo>>,
      <<UtilInspectType, UtilListClasses>>, <<UtilInspectType, UtilVersionInfo>>,
      <<UtilListClasses, UtilVersionInfo>>,
      <<UtilInspectType, UtilListClasses, UtilVersionInfo>> }

\* the converters block of a DSL text with the converter lines cs
ConvertersBlock(cs) ==
    IF cs = <<>> THEN <<>> ELSE <<KwConverters>> \o cs \o << <<"}">> >>

\* the utilities block of a DSL text with the lines us
UtilitiesBlock(us) ==
    IF us = <<>> THEN <<>> ELSE <<KwUtilities>> \o us \o << <<"}">> >>

InitConverters ==
    /\ \/ /\ \E n \in 0..MaxConverters : \E cs \in [1..n -> ILDConverterPool] :
             \E us \in ILDUtilityLines :
                /\ lines = ConvertersBlock(cs) \o UtilitiesBlock(us)
                /\ doc = [EmptyILDDocument EXCEPT !.converters = SeqToSet(cs),
                                                  !.utilities = [i \in DOMAIN us |-> Str(us[i])]]
          /\ idl = None
          /\ phase = "ild_converters"
       \/ /\ \E n \in 0..MaxConverters : \E cvs \in [1..n -> IDLConverterPool] :
             \E ti, lc, vi \in BOOLEAN :
                idl = Some([module |-> "geom", classes |-> <<>>, functions |-> <<>>,
                            converters |-> cvs,
                            utilities |-> [version_info |-> vi, list_classes |-> lc,
                                           type_inspection |-> ti]])
          /\ lines = <<>>
          /\ doc = EmptyILDDocument
          /\ phase = "idl_converters"
    /\ held = None
    /\ DriverIdle
    /\ mi = 1
    /\ out = <<>>
    /\ cls = NoClass
    /\ registered_methods = {}
    /\ file = LoadedFile(EmptyDoc)
    /\ op = "idle"
    /\ errors = <<>>
    /\ warnings = <<>>
    /\ ret = None
    /\ calls = 0
    /\ current_line = 0
    /\ pc = "top"
    /\ BlockIdle
    /\ class_def = None

NextConverters ==
    \/ ILDWriteConverter
    \/ ILDConvertersWritten
    \/ ILDWriteTail
    \/ IDLWriteConverter
    \/ IDLConvertersWritten
    \/ IDLWriteTail

SpecConverters == InitConverters /\ [][NextConverters]_vars

(***************************************************************************)
(* Documents with faulty entries: IDLParser.parse_file on class and        *)
(* function entries that Class.from_dict / Function.from_dict reject.      *)
(***************************************************************************)
FieldDict(access) ==
    [name |-> Some("x"), type |-> Some("double"), access |-> access,
     cpp_name |-> None, getter |-> None, setter |-> None]

MethodDict(ptype) ==
    [name |-> Some("area"), returns |-> None,
     parameters |-> <<[name |-> Some("scale"), type |-> ptype]>>,
     const |-> FALSE, virtual |-> FALSE, pure_virtual |-> FALSE, override |-> FALSE,
     static |-> FALSE, cpp_name |-> None]

\* a class entry with one field and one method
MemberClassDict(name, access, ptype) ==
    [ClassDict(name, [bases |-> <<>>, cpp |-> None]) EXCEPT
        !.fields = <<FieldDict(access)>>, !.methods = <<MethodDict(ptype)>>]

\* the class entry at position i: well-formed, without name, with an invalid
\* access value, with a parameter without type, with two of these faults
ClassEntryKinds == 1..5

ClassEntry(i, kind) ==
    CASE kind = 1 -> MemberClassDict(Some(NameOf(i)), None, Some(TDouble))
      [] kind = 2 -> MemberClassDict(None, Some("ro"), Some(TDouble))
      [] kind = 3 -> MemberClassDict(Some(NameOf(i)), Some("xx"), Some(TDouble))
      [] kind = 4 -> MemberClassDict(Some(NameOf(i)), Some("rw"), None)
      [] OTHER -> MemberClassDict(None, Some("xx"), Some(TDouble))

\* the function entry at position i: well-formed, without name, with a
\* parameter without type
FunctionEntryKinds == 1..3

FunctionEntry(i, kind) ==
    CASE kind = 1 -> [name |-> Some(FuncNameOf(i)),
                      parameters |-> <<[name |-> Some("a"), type |-> Some(TDouble)]>>]
      [] kind = 2 -> [name |-> None, parameters |-> <<>>]
      [] OTHER -> [name |-> Some(FuncNameOf(i)),
                   parameters |-> <<[name |-> Some("a"), type |-> None]>>]

InitItems ==
    /\ \E n, m \in 0..MaxItems :
          \E ck \in [1..n -> ClassEntryKinds], fk \in [1..m -> FunctionEntryKinds] :
              file = LoadedFile([module |-> ModuleSection(Some("geom")),
                                 classes |-> [i \in 1..n |-> ClassEntry(i, ck[i])],
                                 functions |-> [i \in 1..m |-> FunctionEntry(i, fk[i])]])
    /\ errors = <<>>
    /\ warnings = <<>>
    /\ idl = None
    /\ held = None
    /\ DriverIdle
    /\ ret = None
    /\ op = "init"
    /\ calls = 0
    /\ lines = <<>>
    /\ current_line = 0
    /\ pc = "top"
    /\ doc = EmptyILDDocument /\ BlockIdle
    /\ class_def = None
    /\ EmitIdle

SpecItems == InitItems /\ [][Next]_vars

(***************************************************************************)
(* Properties of the validator.                                            *)
(***************************************************************************)
\* the definition the parser holds
Def == idl[1]

BaseNamesOf(c) == {c.base_classes[j].name : j \in DOMAIN c.base_classes}

ClassNamed(d, n) == \E i \in DOMAIN d.classes : d.classes[i].name = n

\* bases of the class(es) named n
BasesOfName(d, n) ==
    UNION {BaseNamesOf(d.classes[i]) : i \in {j \in DOMAIN d.classes : d.classes[j].name = n}}

\* class a lists b as a base and class b lists a as a base, a and b distinct
HasTwoCycle(d) ==
    \E a, b \in SeqToSet(ClassNames(d)) :
        a # b /\ b \in BasesOfName(d, a) /\ a \in BasesOfName(d, b)

\* the base name is the public or the underlying name of a class of d
Resolves(d, n) ==
    \E k \in DOMAIN d.classes : n \in {d.classes[k].name, ClassCppName(d.classes[k])}

EveryBaseResolves(d) ==
    \A i \in DOMAIN d.classes : \A n \in BaseNamesOf(d.classes[i]) : Resolves(d, n)

\* two entries of the list carry the same name
SharesName(names) == \E i, j \in DOMAIN names : i # j /\ names[i] = names[j]

NoDuplicateNames(d) == ~SharesName(ClassNames(d)) /\ ~SharesName(FuncNames(d))

\* D has bases B and C; B and C both have the one base A; A has none
HasDiamond(d) ==
    \E a, b, c, dd \in SeqToSet(ClassNames(d)) :
        /\ Cardinality({a, b, c, dd}) = 4
        /\ BasesOfName(d, dd) = {b, c}
        /\ BasesOfName(d, b) = {a}
        /\ BasesOfName(d, c) = {a}
        /\ BasesOfName(d, a) = {}

\* C1: validate rejects an inheritance cycle: when class A lists B as a base and
\* class B lists A as a base, validate records an error and returns False.
C1_CycleRejected ==
    (op = "validate" /\ HasTwoCycle(Def)) => (ret = Some(FALSE) /\ errors # <<>>)

\* C2: validate accepts diamond inheritance: for a definition with a diamond, no
\* duplicate names and every base defined, validate records no error and no
\* warning and returns True.
C2_DiamondAccepted ==
    (op = "validate" /\ HasDiamond(Def) /\ NoDuplicateNames(Def) /\ EveryBaseResolves(Def))
        => (ret = Some(TRUE) /\ errors = <<>> /\ warnings = <<>>)

C2_Witness ==
    /\ op = "validate"
    /\ Len(Def.classes) = 4
    /\ HasDiamond(Def) /\ NoDuplicateNames(Def) /\ EveryBaseResolves(Def)
    /\ Len(Def.functions) = 2
    /\ ret = Some(TRUE)

\* C3: duplicate class names are rejected with exactly one error: a call of
\* validate on a definition with two or more classes of one name appends exactly
\* the one duplicate-name error, whatever the number of duplicates, and returns
\* False; parse_idl returns None for a document with such classes.
C3_DuplicateClassesOneError ==
    [][ /\ (op' = "validate" /\ SharesName(ClassNames(Def)))
            => (errors' = Append(errors, "Duplicate class names found") /\ ret' = Some(FALSE))
        /\ (op' = "parse_idl" /\ file.exists /\ file.yaml_ok /\ file.data.module # None
              /\ SharesName([i \in DOMAIN file.data.classes |-> file.data.classes[i].name]))
            => (idl' = None /\ ret' = Some(FALSE)) ]_vars

C3_Witness ==
    /\ op = "validate" /\ calls = 1
    /\ Len(Def.classes) = 4
    /\ Cardinality(SeqToSet(ClassNames(Def))) = 1
    /\ errors = <<"Duplicate class names found">>
    /\ ret = Some(FALSE)

\* C4: validate reports all semantic errors in one pass: for a definition with
\* duplicate class names and duplicate function names, one call records an
\* error for the classes and an error for the functions.
C4_AllErrorsInOnePass ==
    (op = "validate" /\ SharesName(ClassNames(Def)) /\ SharesName(FuncNames(Def)))
        => /\ "Duplicate class names found" \in SeqToSet(errors)
           /\ "Duplicate function names found" \in SeqToSet(errors)

\* the (class, base) references of d that name no class of d, in validate's order
RECURSIVE UnresolvedOfClass(_, _, _, _)
UnresolvedOfClass(d, c, j, acc) ==
    IF j > Len(c.base_classes) THEN acc
    ELSE UnresolvedOfClass(d, c, j + 1,
            IF Resolves(d, c.base_classes[j].name)
            THEN acc
            ELSE Append(acc, <<c.name, c.base_classes[j].name>>))

RECURSIVE UnresolvedRefs(_, _, _)
UnresolvedRefs(d, i, acc) ==
    IF i > Len(d.classes) THEN acc
    ELSE UnresolvedRefs(d, i + 1, UnresolvedOfClass(d, d.classes[i], 1, acc))

\* C5: an unresolved base-class reference is a warning and never an error: a call
\* of validate appends exactly one warning per base reference that names no
\* class of the definition (by public or underlying name), naming the class and
\* the base, none for a reference that resolves, appends no error for them, and
\* returns True when there are no duplicate names.
C5_UnresolvedBaseIsWarning ==
    [][ op' = "validate" =>
          LET refs == UnresolvedRefs(Def, 1, <<>>)
          IN /\ warnings' = warnings \o
                    [r \in DOMAIN refs |-> WarningUndefinedBase(refs[r][1], refs[r][2])]
             /\ (NoDuplicateNames(Def) => (errors' = errors /\ ret' = Some(TRUE))) ]_vars

\* the same, for the definitions without duplicate names (the ones whose
\* inheritance validate gets to check)
C5_UnresolvedBaseIsWarningNoDup ==
    [][ (op' = "validate" /\ NoDuplicateNames(Def)) =>
          LET refs == UnresolvedRefs(Def, 1, <<>>)
          IN /\ warnings' = warnings \o
                    [r \in DOMAIN refs |-> WarningUndefinedBase(refs[r][1], refs[r][2])]
             /\ errors' = errors /\ ret' = Some(TRUE) ]_vars

(***************************************************************************)
(* Properties of class construction.                                       *)
(***************************************************************************)
\* no line of the text declares a constructor
NoConstructorLine == \A i \in DOMAIN lines : ~StartsWith(lines[i], KwConstructor)

\* C6: a class declared with zero constructors ends up with exactly one
\* constructor, with zero parameters, whichever parser built it, and a class
\* declared with k >= 1 constructors has exactly those k.
C6_DefaultConstructor ==
    /\ (op = "parse_file" /\ idl # None) =>
          \A i \in DOMAIN Def.classes :
             LET declared == file.data.classes[i].constructors
                 built == Def.classes[i].constructors
             IN IF declared = <<>>
                THEN built = <<[parameters |-> <<>>]>>
                ELSE built = [j \in DOMAIN declared |-> [parameters |-> declared[j].parameters]]
    /\ \A i \in DOMAIN doc.classes :
          /\ Len(doc.classes[i].constructors) >= 1
          /\ NoConstructorLine => doc.classes[i].constructors = <<[parameters |-> <<>>]>>

\* the DSL parser alone: when _parse_class returns, a class that collected no
\* constructor gets the one default constructor and any other class keeps the
\* constructors it collected
C6_DefaultConstructorILD ==
    [][ (pc = "class" /\ pc' = "top") =>
          LET collected == class_def[1].constructors
              built == doc'.classes[Len(doc'.classes)].constructors
          IN /\ Len(doc'.classes) = Len(doc.classes) + 1
             /\ IF collected = <<>> THEN built = <<[parameters |-> <<>>]>>
                                     ELSE built = collected ]_vars

(***************************************************************************)
(* Properties of the emitted registrations.                                *)
(***************************************************************************)
\* positions of out that were written for method i of cls.methods
WrittenFor(i) == {k \in DOMAIN out : out[k].idx = i}

\* no other method of the class carries the declared name of method i
NameUsedOnce(i) ==
    \A j \in DOMAIN cls.methods : j # i => cls.methods[j].name # cls.methods[i].name

\* the underlying (C++) names
UnderlyingClass == IF cls.cpp_class = None THEN cls.name ELSE cls.cpp_class[1]

UnderlyingMethod(m) == IF m.cpp_name = None THEN m.name ELSE m.cpp_name[1]

\* the declared parameter types, verbatim
DeclaredTypes(m) == [i \in DOMAIN m.parameters |-> m.parameters[i].type]

\* "P1, ..., Pn"
RECURSIVE TypeList(_, _)
TypeList(m, i) ==
    IF i > Len(m.parameters) THEN ""
    ELSE Str(m.parameters[i].type) \o (IF i < Len(m.parameters) THEN ", " ELSE "")
            \o TypeList(m, i + 1)

\* C7: a method whose declared name no other method of the class uses is
\* written once, under exactly its declared name, and the pointer expression
\* of the call is the plain &Class::method on the underlying names (a
\* pure-virtual registration carries no pointer expression at all).
C7_NotOverloadedPlainPointer ==
    phase = "done" =>
        \A i \in DOMAIN cls.methods :
            NameUsedOnce(i) =>
                LET m == cls.methods[i]
                IN \E k \in DOMAIN out :
                      /\ WrittenFor(i) = {k}
                      /\ out[k].name = m.name
                      /\ out[k].ptr = IF m.pure_virtual THEN <<>>
                                      ELSE <<"&" \o UnderlyingClass \o "::" \o UnderlyingMethod(m)>>

C7_Witness ==
    /\ phase = "done"
    /\ cls.cpp_class # None
    /\ Len(cls.methods) = 2
    /\ \E i \in DOMAIN cls.methods :
          /\ NameUsedOnce(i)
          /\ cls.methods[i].cpp_name # None
          /\ \E k \in WrittenFor(i) : out[k].ptr = <<"&geom::Rect::impl">>

\* the methods that share the declared name of method i have pairwise distinct
\* parameter-type sequences
GroupDistinct(i) ==
    \A a, b \in {j \in DOMAIN cls.methods : cls.methods[j].name = cls.methods[i].name} :
        a # b => DeclaredTypes(cls.methods[a]) # DeclaredTypes(cls.methods[b])

\* C8: when several methods of a class share a declared name and their
\* parameter-type sequences are pairwise distinct, each is written and the
\* names they are registered under are pairwise distinct.
C8_OverloadNamesDistinct ==
    phase = "done" =>
        \A i, j \in DOMAIN cls.methods :
            (i # j /\ cls.methods[i].name = cls.methods[j].name /\ GroupDistinct(i)) =>
                /\ WrittenFor(i) # {}
                /\ \A k \in WrittenFor(i), l \in WrittenFor(j) : out[k].name # out[l].name

\* the part of the suffix a parameter type stands for: qualifiers removed,
\* cut before the template arguments, namespace removed, lower case
ExpectedPart(t) ==
    LET bare == Remove(Remove(Remove(Remove(t, <<"c", "o", "n", "s", "t">>), <<"&">>), <<"*">>), <<" ">>)
        head == IF \E i \in DOMAIN bare : bare[i] = "<"
                THEN SubSeq(bare, 1, (CHOOSE i \in DOMAIN bare :
                                        bare[i] = "<" /\ \A j \in 1..(i - 1) : bare[j] # "<") - 1)
                ELSE bare
    IN Lower(LastPiece(head, <<":", ":">>))

RECURSIVE ExpectedParts(_, _)
ExpectedParts(m, i) ==
    IF i > Len(m.parameters) THEN ""
    ELSE Str(ExpectedPart(m.parameters[i].type)) \o (IF i < Len(m.parameters) THEN "_" ELSE "")
            \o ExpectedParts(m, i + 1)

ExpectedSuffix(m) == IF m.parameters = <<>> THEN "void" ELSE ExpectedParts(m, 1)

HasTemplateArguments(m) ==
    \E i \in DOMAIN m.parameters : \E j \in DOMAIN m.parameters[i].type :
        m.parameters[i].type[j] = "<"

\* C9: an overloaded method is registered under its declared name, "_" and a
\* suffix made of its parameter types only: void without parameters, otherwise
\* one part per parameter in order, joined with "_", each part the type without
\* const, & and *, without namespace, cut before "<", in lower case.
C9_SuffixFromParameterTypes ==
    \A k \in DOMAIN out :
        (out[k].idx > 0 /\ ~NameUsedOnce(out[k].idx)) =>
            LET m == cls.methods[out[k].idx]
            IN out[k].name = m.name \o "_" \o ExpectedSuffix(m)

\* C9 holds for the overloads none of whose parameter types has template
\* arguments (area_void, area_double, setScale_vector3d among them).
C9_SuffixWithoutTemplateArguments ==
    \A k \in DOMAIN out :
        (out[k].idx > 0 /\ ~NameUsedOnce(out[k].idx)
            /\ ~HasTemplateArguments(cls.methods[out[k].idx])) =>
            LET m == cls.methods[out[k].idx]
            IN out[k].name = m.name \o "_" \o ExpectedSuffix(m)

C9_Examples ==
    /\ phase = "done"
    /\ \E k, l \in DOMAIN out : out[k].name = "area_void" /\ out[l].name = "area_double"

\* C10: the pointer expression written for an overloaded method is
\* static_cast<R (C::*)(P1, ..., Pn)>(&C::m), with " const" after the
\* parameter list iff the method is const, and for a static method
\* static_cast<R (*)(P1, ..., Pn)>(&C::m) without class qualifier and without
\* const; two overloads of a name with different parameter types get
\* different expressions.
C10_MethodPointerCast ==
    /\ \A k \in DOMAIN out :
          (out[k].idx > 0 /\ ~NameUsedOnce(out[k].idx) /\ out[k].ptr # <<>>) =>
              LET m == cls.methods[out[k].idx]
                  target == "(&" \o UnderlyingClass \o "::" \o UnderlyingMethod(m) \o ")"
              IN out[k].ptr =
                   IF m.static
                   THEN <<"static_cast<" \o m.returns \o " (*)(" \o TypeList(m, 1) \o ")>" \o target>>
                   ELSE <<"static_cast<" \o m.returns \o " (" \o UnderlyingClass \o "::*)("
                            \o TypeList(m, 1) \o ")" \o (IF m.const THEN " const" ELSE "")
                            \o ">" \o target>>
    /\ \A k, l \in DOMAIN out :
          (/\ out[k].idx > 0 /\ out[l].idx > 0
           /\ out[k].ptr # <<>> /\ out[l].ptr # <<>>
           /\ cls.methods[out[k].idx].name = cls.methods[out[l].idx].name
           /\ DeclaredTypes(cls.methods[out[k].idx]) # DeclaredTypes(cls.methods[out[l].idx]))
          => out[k].ptr # out[l].ptr

C10_Witness ==
    /\ phase = "done"
    /\ \E k, l \in DOMAIN out :
          /\ out[k].ptr = <<"static_cast<void (*)(double)>(&geom::Rect::area)">>
          /\ out[l].ptr = <<"static_cast<double (geom::Rect::*)(const Vector3D&) const>(&geom::Rect::area)">>

\* the cast of an overloaded member function, as C++ needs it
ExpectedMemberCast(m) ==
    "static_cast<" \o m.returns \o " (" \o UnderlyingClass \o "::*)(" \o TypeList(m, 1) \o ")"
        \o (IF m.const THEN " const" ELSE "") \o ">(&" \o UnderlyingClass \o "::"
        \o UnderlyingMethod(m) \o ")"

\* the registration was written for an overloaded method that is not static
\* and is flagged pure_virtual, virtual or override
ForOverloadedVirtual(k) ==
    /\ out[k].idx > 0
    /\ ~NameUsedOnce(out[k].idx)
    /\ LET m == cls.methods[out[k].idx]
       IN ~m.static /\ (m.pure_virtual \/ m.virtual \/ m.override)

\* C11 as stated: the registration of an overloaded pure_virtual, virtual or
\* override method (not static) carries no static_cast pointer expression.
C11_VirtualExemptFromCast ==
    \A k \in DOMAIN out :
        ForOverloadedVirtual(k) =>
            LET m == cls.methods[out[k].idx]
            IN out[k].ptr \in {<<>>, <<"&" \o UnderlyingClass \o "::" \o UnderlyingMethod(m)>>}

\* C11: of the overloaded methods flagged pure_virtual, virtual or override
\* (not static) only the pure-virtual ones are exempt from the cast: their
\* registration carries no pointer expression, while a virtual or override
\* one carries the static_cast member pointer; the name has the overload
\* suffix in both cases.
C11_OnlyPureVirtualExemptFromCast ==
    \A k \in DOMAIN out :
        ForOverloadedVirtual(k) =>
            LET m == cls.methods[out[k].idx]
            IN /\ out[k].ptr = IF m.pure_virtual THEN <<>> ELSE <<ExpectedMemberCast(m)>>
               /\ out[k].name # m.name

C11_Witness ==
    /\ phase = "done"
    /\ \E k, l \in DOMAIN out :
          /\ ForOverloadedVirtual(k) /\ ForOverloadedVirtual(l)
          /\ cls.methods[out[k].idx].virtual /\ out[k].call = "virtual_method"
          /\ out[k].ptr = <<"static_cast<double (geom::Rect::*)(double)>(&geom::Rect::area)">>
          /\ cls.methods[out[l].idx].pure_virtual /\ out[l].ptr = <<>>

\* the call the flags of a method select
ExpectedCall(m) ==
    CASE m.pure_virtual -> "pure_virtual_method"
      [] ~m.pure_virtual /\ m.static -> "static_method"
      [] ~m.pure_virtual /\ ~m.static /\ m.override -> "override_method"
      [] ~m.pure_virtual /\ ~m.static /\ ~m.override /\ m.virtual -> "virtual_method"
      [] OTHER -> "method"

\* C12: a written method has exactly one registration call, and the call is
\* pure_virtual_method if pure_virtual is set, else static_method if static,
\* else override_method if override, else virtual_method if virtual, else
\* method.
C12_RegistrationPrecedence ==
    \A k \in DOMAIN out :
        out[k].idx > 0 =>
            /\ out[k].call = ExpectedCall(cls.methods[out[k].idx])
            /\ \A l \in DOMAIN out : out[l].idx = out[k].idx => l = k

C12_Witness ==
    /\ phase = "done"
    /\ \E k \in DOMAIN out :
          /\ out[k].idx > 0
          /\ LET m == cls.methods[out[k].idx]
             IN m.pure_virtual /\ m.static /\ m.override /\ m.virtual
          /\ out[k].call = "pure_virtual_method"

\* where the registration of field i stands in the output: after the comment,
\* ROSETTA_REGISTER_CLASS, the constructors and the base classes
FieldPos(i) == 2 + Len(cls.constructors) + Len(cls.base_classes) + i

FieldCalls == {"property", "readonly_property", "writeonly_property", "field"}

\* the call the getter / setter / access combination of a field selects
ExpectedFieldCall(f) ==
    CASE f.getter # None /\ f.setter # None -> "property"
      [] f.getter # None /\ f.setter = None /\ f.access = "ro" -> "readonly_property"
      [] f.getter = None /\ f.setter # None /\ f.access = "wo" -> "writeonly_property"
      [] OTHER -> "field"

\* C13: every field has exactly one registration call: property with getter
\* and setter both present, whatever the access mode; else readonly_property
\* with a getter and read-only access; else writeonly_property with a setter
\* and write-only access; else a direct field binding on cpp_name, else name.
C13_FieldRegistration ==
    phase \in {"methods", "done"} =>
        /\ Cardinality({k \in DOMAIN out : out[k].call \in FieldCalls}) = Len(cls.fields)
        /\ \A i \in DOMAIN cls.fields :
              LET f == cls.fields[i]
                  r == out[FieldPos(i)]
              IN /\ r.call = ExpectedFieldCall(f)
                 /\ r.name = f.name
                 /\ r.call = "field" =>
                       r.ptr = <<"&" \o UnderlyingClass \o "::"
                                   \o (IF f.cpp_name = None THEN f.name ELSE f.cpp_name[1])>>

C13_Witness ==
    /\ phase = "done"
    /\ \E i \in DOMAIN cls.fields :
          /\ cls.fields[i].getter # None /\ cls.fields[i].setter = None
          /\ cls.fields[i].access = "rw" /\ cls.fields[i].cpp_name # None
          /\ out[FieldPos(i)].call = "field"
          /\ out[FieldPos(i)].ptr = <<"&geom::Rect::x_">>

\* methods a and b have one identity tuple: name, parameter types in order,
\* const-ness
SameIdentity(a, b) ==
    /\ a.name = b.name
    /\ DeclaredTypes(a) = DeclaredTypes(b)
    /\ a.const = b.const

\* method i is the first declared method with its identity tuple
FirstOfIdentity(i) ==
    \A j \in 1..(i - 1) : ~SameIdentity(cls.methods[j], cls.methods[i])

\* C14: at the end of the emission of a class every identity tuple has exactly
\* one registration, written for the first declared method with that tuple;
\* later methods with the tuple are skipped, no error or warning is recorded,
\* and the registrations stand in declaration order.
C14_DuplicatesSkipped ==
    phase = "done" =>
        /\ \A i \in DOMAIN cls.methods :
              Cardinality(WrittenFor(i)) = IF FirstOfIdentity(i) THEN 1 ELSE 0
        /\ \A k, l \in DOMAIN out :
              (out[k].idx > 0 /\ out[l].idx > 0 /\ k < l) => out[k].idx < out[l].idx
        /\ errors = <<>> /\ warnings = <<>>

C14_Witness ==
    /\ phase = "done"
    /\ Len(cls.methods) = 2
    /\ SameIdentity(cls.methods[1], cls.methods[2])
    /\ cls.methods[1].static # cls.methods[2].static
    /\ WrittenFor(1) # {} /\ WrittenFor(2) = {}

(***************************************************************************)
(* Properties of the parsers on faulty descriptions.                       *)
(***************************************************************************)
\* no line of the text opens a module block
NoModuleBlock == \A i \in DOMAIN lines : ~StartsWith(lines[i], KwModule \o <<" ">>)

\* the structured document was loaded and has no module section
NoModuleSection == file.exists /\ file.yaml_ok /\ file.data.module = None

\* C15: a description without module block or section is rejected: the DSL
\* parser does not return a document for a text without module block, and
\* parse_file on a document without module section yields no definition and
\* records the diagnostic of the missing module.
C15_MissingModuleRejected ==
    /\ ~(pc = "done" /\ NoModuleBlock)
    /\ (op = "parse_file" /\ NoModuleSection) =>
          (idl = None /\ errors = <<"Missing required 'module' section">>)

\* C15 for IDLParser.parse_dict of rosetta_idl_parser alone
C15_MissingModuleRejectedIDL ==
    (op \in {"parse_file", "parse_idl"} /\ NoModuleSection) =>
        (idl = None /\ errors = <<"Missing required 'module' section">>)

\* a parameter, field, method, class or function entry that cannot be built
ParameterFails(pd) == pd.name = None \/ pd.type = None

FieldFails(fd) ==
    \/ fd.name = None
    \/ fd.type = None
    \/ fd.access # None /\ fd.access[1] \notin {"rw", "ro", "wo"}

MethodFails(md) ==
    md.name = None \/ \E i \in DOMAIN md.parameters : ParameterFails(md.parameters[i])

ClassEntryFails(cd) ==
    \/ cd.name = None
    \/ \E i \in DOMAIN cd.fields : FieldFails(cd.fields[i])
    \/ \E i \in DOMAIN cd.methods : MethodFails(cd.methods[i])

FunctionEntryFails(fd) ==
    fd.name = None \/ \E i \in DOMAIN fd.parameters : ParameterFails(fd.parameters[i])

\* the failing class entries and the failing function entries, in order
FailingClassEntries ==
    SelectSeq(file.data.classes, ClassEntryFails)

FailingFunctionEntries ==
    SelectSeq(file.data.functions, FunctionEntryFails)

\* the diagnostic names the entry of the given kind
NamesEntry(msg, kind, d) ==
    \E why \in {"'name'", "'type'", "'xx' is not a valid AccessMode"} :
        msg = "Error parsing " \o kind \o " '"
                \o (IF d.name = None THEN "?" ELSE d.name[1]) \o "': " \o why

HasChar(line, c) == \E i \in DOMAIN line : line[i] = c

\* a member line that cannot match the fixed grammar: a field without ':' or
\* a method without '('
FaultyMemberLine(line) ==
    \/ StartsWith(line, <<"f", "i", "e", "l", "d", " ">>) /\ ~HasChar(line, ":")
    \/ StartsWith(line, <<"m", "e", "t", "h", "o", "d", " ">>) /\ ~HasChar(line, "(")

\* lines h, h+1, h+2 are a class block at top level whose only member line
\* is faulty: every line before h belongs to a closed block or is a statement
FaultyClassAt(h) ==
    /\ h + 3 <= Len(lines)
    /\ h = 1 \/ lines[h - 1] = <<"}">>
             \/ StartsWith(lines[h - 1], <<"i", "n", "c", "l", "u", "d", "e", " ", "\"">>)
    /\ lines[h] = <<"c", "l", "a", "s", "s", " ", "A", " ", "{">>
    /\ FaultyMemberLine(lines[h + 1])
    /\ lines[h + 2] = <<"}">>

\* the well-formed function line  function f(int x, double) : int as g
GoodFunctionLine ==
    <<"f", "u", "n", "c", "t", "i", "o", "n", " ", "f", "(", "i", "n", "t", " ", "x", ",", " ",
      "d", "o", "u", "b", "l", "e", ")", " ", ":", " ", "i", "n", "t", " ", "a", "s", " ", "g">>

\* the parse has returned or failed
ParseOver == pc \in {"done", "raised"}

\* C17: an error inside a class block aborts only that class: when the parse
\* is over, a well-formed function that directly follows a class block with
\* a faulty member line has been parsed into the document.
C17_FaultyClassAbortsOnlyClass ==
    \A h \in DOMAIN lines :
        (ParseOver /\ FaultyClassAt(h) /\ lines[h + 3] = GoodFunctionLine) =>
            \E i \in DOMAIN doc.functions : doc.functions[i].name = "f"

\* what the parser does instead: the failure of the member line ends the
\* whole parse at that line, and nothing after it is read
C17_FaultyClassAbortsParse ==
    \A h \in DOMAIN lines :
        (ParseOver /\ FaultyClassAt(h) /\ (\A k \in 1..(h - 1) : ~FaultyClassAt(k))
            /\ (h = 1 \/ current_line >= h)) =>
                /\ pc = "raised"
                /\ current_line = h
                /\ doc.functions = <<>> \/ \E i \in 1..(h - 1) : lines[i] = GoodFunctionLine

\* C18: ILDParser.parse terminates on every finite text: the parse returns or
\* fails.
C18_ParseTerminates == <>ParseOver

\* the line under the cursor is a version: or description: line of a module
\* block
AtModuleValueLine ==
    /\ pc = "module"
    /\ current_line < Len(lines)
    /\ \/ StartsWith(lines[current_line + 1], <<"v", "e", "r", "s", "i", "o", "n", ":">>)
       \/ StartsWith(lines[current_line + 1], <<"d", "e", "s", "c", "r", "i", "p", "t", "i", "o", "n", ":">>)

\* C18, per iteration: every step of the scan advances the cursor, raises, or
\* leaves its loop.
C18_EveryIterationAdvances == [][current_line' > current_line \/ pc' # pc]_vars

\* every iteration but the one on a version: or description: line does; that
\* one leaves the cursor where it is and stays in the module loop
C18_OnlyValueLinesStall ==
    [][IF AtModuleValueLine
       THEN current_line' = current_line /\ pc' = pc
       ELSE current_line' > current_line \/ pc' # pc]_vars

\* on a text without version: and description: lines the parse does end
NoValueLine ==
    \A i \in DOMAIN lines :
        /\ ~StartsWith(lines[i], <<"v", "e", "r", "s", "i", "o", "n", ":">>)
        /\ ~StartsWith(lines[i], <<"d", "e", "s", "c", "r", "i", "p", "t", "i", "o", "n", ":">>)

C18_ParseTerminatesWithoutValueLines == NoValueLine => <>ParseOver

(***************************************************************************)
(* Properties of _parse_parameter_list.                                    *)
(***************************************************************************)
\* the parameter string of the function line: the text between '(' and ')'
DeclaredParams ==
    LET l == lines[1]
        a == CHOOSE i \in DOMAIN l : l[i] = "(" /\ \A j \in 1..(i - 1) : l[j] # "("
        b == CHOOSE i \in DOMAIN l : l[i] = ")" /\ \A j \in 1..(i - 1) : l[j] # ")"
    IN SubSeq(l, a + 1, b - 1)

CommasOf(s) == {i \in DOMAIN s : s[i] = ","}

\* the position of the j-th comma of s; 0 before the first entry and
\* Len(s) + 1 after the last
CutOf(s, j) ==
    IF j = 0 THEN 0
    ELSE IF j > Cardinality(CommasOf(s)) THEN Len(s) + 1
    ELSE CHOOSE i \in CommasOf(s) : Cardinality({k \in CommasOf(s) : k < i}) = j - 1

\* the j-th comma-separated entry of s
EntryOf(s, j) == SubSeq(s, CutOf(s, j - 1) + 1, CutOf(s, j) - 1)

\* the entry without the blanks around it
TrimmedEntry(e) ==
    LET inked == {i \in DOMAIN e : e[i] # " "}
    IN IF inked = {} THEN <<>>
       ELSE SubSeq(e, CHOOSE i \in inked : \A k \in inked : i <= k,
                      CHOOSE i \in inked : \A k \in inked : i >= k)

\* the entries of s that are not empty, by their number
NonEmptyEntries(s) ==
    {j \in 1..(Cardinality(CommasOf(s)) + 1) : TrimmedEntry(EntryOf(s, j)) # <<>>}

ArgNames == <<"arg0", "arg1", "arg2", "arg3", "arg4", "arg5">>

\* the Parameter the entry e is to yield when r entries before it yielded one
ExpectedParameter(e, r) ==
    LET blanks == {i \in DOMAIN e : e[i] = " "}
    IN IF blanks = {}
       THEN [name |-> ArgNames[r + 1], type |-> Str(e)]
       ELSE LET k == CHOOSE i \in blanks : \A m \in blanks : i >= m
            IN [name |-> Str(SubSeq(e, k + 1, Len(e))), type |-> Str(SubSeq(e, 1, k - 1))]

Bracketed(t) ==
    LET opens == {i \in DOMAIN t : t[i] = "<"}
        closes == {i \in DOMAIN t : t[i] = ">"}
    IN SubSeq(t, (CHOOSE i \in opens : \A k \in opens : i <= k) + 1,
                 (CHOOSE i \in closes : \A k \in closes : i >= k) - 1)

\* the commas of s that stand outside every nested bracket pair
TopLevelCommas(s) ==
    {i \in DOMAIN s :
        /\ s[i] = ","
        /\ Cardinality({j \in 1..(i - 1) : s[j] = "<"})
              = Cardinality({j \in 1..(i - 1) : s[j] = ">"})}

\* a converter text for a two-argument map
IsMapType(t) ==
    /\ \E i \in DOMAIN t : i + 3 <= Len(t) /\ SubSeq(t, i, i + 3) = <<"m", "a", "p", "<">>
                            /\ \A j \in 1..(i - 1) : t[j] # "<"
    /\ t[Len(t)] = ">"
    /\ Cardinality(TopLevelCommas(Bracketed(t))) = 1

\* the registration call for map<K,V>: K, then V
ExpectedMapCall(t) ==
    LET b == Bracketed(t)
        k == CHOOSE i \in TopLevelCommas(b) : TRUE
    IN "    register_map_converter<" \o Str(TrimmedEntry(SubSeq(b, 1, k - 1))) \o ", "
          \o Str(TrimmedEntry(SubSeq(b, k + 1, Len(b)))) \o ">(gen);"

\* the map converters the document declares
DeclaredMapConverters ==
    {c \in doc.converters : IsMapType(c)}
        \cup (IF idl = None THEN {}
              ELSE {idl[1].converters[i].type : i \in
                       {j \in DOMAIN idl[1].converters :
                           /\ idl[1].converters[j].kind = "map"
                           /\ IsMapType(idl[1].converters[j].type)}})

\* C20: once the converter loop is over, every declared map converter
\* map<K,V> has its registration call, parameterized by K and then V, the
\* two being the parts of the bracketed text around its top-level comma.
C20_MapConverterCall ==
    phase = "end" =>
        \A c \in DeclaredMapConverters : \E i \in DOMAIN out : out[i] = ExpectedMapCall(c)

\* what ild/js_generator.py does: a map converter with a single comma in its
\* text gets the call, one with a comma inside nested brackets gets no line
C20_MapConverterCallILD ==
    (phase = "end" /\ idl = None) =>
        \A c \in DeclaredMapConverters :
            IF Cardinality({i \in DOMAIN c : c[i] = ","}) = 1
            THEN \E i \in DOMAIN out : out[i] = ExpectedMapCall(c)
            ELSE \A i \in DOMAIN out : out[i] # ExpectedMapCall(c)

\* what idl/js_generator.py does: a map converter gets a comment, never a call
C20_MapConverterCommentIDL ==
    (phase = "end" /\ idl # None) =>
        \A j \in DOMAIN idl[1].converters :
            idl[1].converters[j].kind = "map" =>
                out[j] = "    // TODO: register map converter for " \o Str(idl[1].converters[j].type)

(***************************************************************************)
(* Properties of the parser object across calls.                           *)
(***************************************************************************)
\* parse_file reached parse_dict: the file exists and loads
ReachedParseDict == op = "parse_file" /\ file.exists /\ file.yaml_ok

\* the loaded value is None, has no module section, or a module section
\* without name
NoUsableModule ==
    IF file.empty \/ file.data.module = None THEN TRUE
    ELSE file.data.module[1].name = None

\* C25: parse_dict returns for every input, and its result agrees with its
\* diagnostics: a definition with the error list empty, or None with the
\* error list non-empty; None, a document without module and a module
\* without name give None and one diagnostic.
C25_ResultAgreesWithDiagnostics ==
    ReachedParseDict =>
        /\ (idl = None) <=> (errors # <<>>)
        /\ NoUsableModule => (idl = None /\ Len(errors) = 1)

C25_Witness ==
    /\ ReachedParseDict
    /\ ~file.empty
    /\ file.data.module = <<[name |-> <<>>]>>
    /\ idl = None
    /\ errors = <<"Error creating interface definition: 'name'">>

(***************************************************************************)
(* Several calls on one IDLParser object: parse_file on one file after     *)
(* another, and validate on a definition the caller passes.                *)
(***************************************************************************)
\* diagnostics one parser object collects before the calls stop
MaxDiagnostics == 3

PlainShape == [bases |-> <<>>, cpp |-> None]

\* classes A and B, B derived from A
SoundDoc ==
    [EmptyDoc EXCEPT !.classes = <<ClassDict(Some("A"), PlainShape),
                                   ClassDict(Some("B"), [bases |-> <<"A">>, cpp |-> None])>>]

\* class A derived from X, which the document does not define
UndefinedBaseDoc ==
    [EmptyDoc EXCEPT !.classes = <<ClassDict(Some("A"), [bases |-> <<"X">>, cpp |-> None])>>]

\* two classes named A
DuplicateClassDoc ==
    [EmptyDoc EXCEPT !.classes = <<ClassDict(Some("A"), PlainShape),
                                   ClassDict(Some("A"), PlainShape)>>]

MissingFile == [exists |-> FALSE, yaml_ok |-> TRUE, empty |-> FALSE, data |-> EmptyDoc]

UnreadableFile == [exists |-> TRUE, yaml_ok |-> FALSE, empty |-> FALSE, data |-> EmptyDoc]

CallDocs == {SoundDoc, UndefinedBaseDoc, DuplicateClassDoc}

CallFiles == {LoadedFile(d) : d \in CallDocs} \cup {MissingFile, UnreadableFile}

\* the definitions a caller can pass to validate: what parse_dict builds
\* from the documents
CallDefinitions == {ParseDictResult(d).idl[1] : d \in CallDocs}

InitCalls ==
    /\ file \in CallFiles
    /\ errors = <<>>
    /\ warnings = <<>>
    /\ idl = None
    /\ held = None
    /\ DriverIdle
    /\ ret = None
    /\ op = "init"
    /\ calls = 0
    /\ lines = <<>>
    /\ current_line = 0
    /\ pc = "top"
    /\ doc = EmptyILDDocument /\ BlockIdle
    /\ class_def = None
    /\ EmitIdle

\* a further parse_file call on the same object, on any file
ParseFileNext ==
    /\ op # "init"
    /\ Len(errors) < MaxDiagnostics
    /\ \E f \in CallFiles :
         \E r \in {ParseFileResult(f, errors, warnings)} :
            /\ file' = f
            /\ idl' = r.idl
            /\ held' = IF r.idl # None THEN r.idl ELSE held
            /\ errors' = r.errors
            /\ warnings' = r.warnings
    /\ op' = "parse_file"
    /\ UNCHANGED <<ret, calls, ildVars, emitVars, blockVars, driverVars>>

\* validate(d) on the same object, d any definition
ValidateGiven ==
    /\ op # "init"
    /\ Len(errors) < MaxDiagnostics
    /\ Len(warnings) < MaxDiagnostics
    /\ \E d \in CallDefinitions :
         \E r \in {ValidateResult(d, errors, warnings)} :
            /\ held' = Some(d)
            /\ ret' = Some(r.ret)
            /\ errors' = r.errors
            /\ warnings' = r.warnings
    /\ op' = "validate"
    /\ UNCHANGED <<file, idl, calls, ildVars, emitVars, blockVars, driverVars>>

NextCalls == ParseFile \/ ParseFileNext \/ ValidateGiven

SpecCalls == InitCalls /\ [][NextCalls]_vars

\* what a parser object that has made no call records for validate(d)
FreshValidateErrors(d) ==
    IF SharesName(ClassNames(d)) THEN <<"Duplicate class names found">>
    ELSE IF SharesName(FuncNames(d)) THEN <<"Duplicate function names found">>
    ELSE <<>>

\* C26: the result of validate depends only on the definition it is given:
\* after any earlier calls on the same parser, validate(d) returns True for
\* every d without duplicate names and records the errors a fresh parser
\* records.
C26_ValidateDependsOnDefinitionOnly ==
    op = "validate" =>
        /\ NoDuplicateNames(held[1]) => ret = Some(TRUE)
        /\ errors = FreshValidateErrors(held[1])

\* validate says True exactly when the definition has no duplicate names and
\* the object's error list was empty at the call
C26_ValidateSeesEarlierErrors ==
    [][op' = "validate" =>
          ret' = Some(NoDuplicateNames(held'[1]) /\ errors = <<>>)]_vars

\* what a parser object that has made no call records for parse_file(f)
FreshParseErrors(f) ==
    IF ~f.exists THEN <<"File not found">>
    ELSE IF ~f.yaml_ok THEN <<"YAML parsing error">>
    ELSE <<>>

\* C27: the diagnostics of one parse do not leak into the next: after
\* parse_file the object holds the diagnostics of that call only, also when
\* the call fails before parse_dict (file not found, YAML error).
C27_ParseDiagnosticsDoNotLeak ==
    op = "parse_file" =>
        /\ errors = FreshParseErrors(file)
        /\ warnings = <<>>

\* a parse_file call that reaches parse_dict leaves the diagnostics of that
\* call only; one that fails before it appends one error to what was there
C27_OnlyParseDictClears ==
    [][op' = "parse_file" =>
          IF file'.exists /\ file'.yaml_ok
          THEN errors' = <<>> /\ warnings' = <<>>
          ELSE /\ errors' = errors \o FreshParseErrors(file')
               /\ warnings' = warnings]_vars

(***************************************************************************)
(* Properties of the registration code of one class.                       *)
(***************************************************************************)
\* C28: within one class the names the method registrations are written
\* under are pairwise distinct, the suffixed name of an overloaded method and
\* the declared name of another method included.
C28_RegisteredNamesDistinct ==
    phase = "done" =>
        \A k, l \in DOMAIN out :
            (k # l /\ out[k].idx > 0 /\ out[l].idx > 0) => out[k].name # out[l].name

\* methods i and j carry different declared names and are written under one
\* name
SuffixedNameMeetsDeclaredName ==
    /\ phase = "done"
    /\ \E i, j \in DOMAIN cls.methods :
          /\ cls.methods[i].name = "area" /\ cls.methods[j].name = "area_double"
          /\ \E k \in WrittenFor(i), l \in WrittenFor(j) : out[k].name = out[l].name

\* when the declared names are pairwise distinct no suffix is added and the
\* written names are pairwise distinct
C28_NamesDistinctWhenNoSuffix ==
    phase = "done" =>
        ((\A i, j \in DOMAIN cls.methods : i # j => cls.methods[i].name # cls.methods[j].name)
            => \A k, l \in DOMAIN out :
                  (k # l /\ out[k].idx > 0 /\ out[l].idx > 0) => out[k].name # out[l].name)

\* every method that carries the declared name of method i has its identity
\* tuple, and there is such a method besides i
OnlyExactDuplicates(i) ==
    /\ \E j \in DOMAIN cls.methods : j # i /\ cls.methods[j].name = cls.methods[i].name
    /\ \A j \in DOMAIN cls.methods :
          cls.methods[j].name = cls.methods[i].name => SameIdentity(cls.methods[j], cls.methods[i])

\* C29: exact duplicates do not make a method overloaded: a method whose
\* declared name is shared only by methods with its identity tuple is written
\* once, under the declared name without suffix and with the plain
\* &Class::method pointer.
C29_ExactDuplicatesNotOverloaded ==
    phase = "done" =>
        \A i \in DOMAIN cls.methods :
            (OnlyExactDuplicates(i) /\ FirstOfIdentity(i)) =>
                LET m == cls.methods[i]
                IN \E k \in DOMAIN out :
                      /\ {l \in DOMAIN out : out[l].idx > 0
                                               /\ cls.methods[out[l].idx].name = m.name} = {k}
                      /\ out[k].name = m.name
                      /\ out[k].ptr = IF m.pure_virtual THEN <<>>
                                      ELSE <<"&" \o UnderlyingClass \o "::" \o UnderlyingMethod(m)>>

\* exact duplicates are written once, suffixed, and with a cast pointer unless
\* pure virtual
C29_ExactDuplicatesSuffixed ==
    phase = "done" =>
        \A i \in DOMAIN cls.methods :
            (OnlyExactDuplicates(i) /\ FirstOfIdentity(i)) =>
                LET m == cls.methods[i]
                IN \E k \in DOMAIN out :
                      /\ {l \in DOMAIN out : out[l].idx > 0
                                               /\ cls.methods[out[l].idx].name = m.name} = {k}
                      /\ out[k].name # m.name
                      /\ out[k].ptr # <<"&" \o UnderlyingClass \o "::" \o UnderlyingMethod(m)>>

\* calls that give write access, calls that give read access
WritableCalls == {"property", "writeonly_property", "field"}

ReadableCalls == {"property", "readonly_property", "field"}

\* C30: a field declared read-only is never registered in a writable form:
\* whatever its getter and setter entries only a readonly_property is written
\* for it; a write-only field is never registered in a readable form.
C30_AccessModeRespected ==
    phase \in {"methods", "done"} =>
        \A i \in DOMAIN cls.fields :
            LET f == cls.fields[i]
                r == out[FieldPos(i)]
            IN /\ f.access = "ro" => (r.call = "readonly_property" /\ r.call \notin WritableCalls)
               /\ f.access = "wo" => r.call \notin ReadableCalls

\* a read-only field is written read-only exactly when it has a getter and no
\* setter, a write-only field write-only exactly when it has a setter and no
\* getter
C30_AccessModeNeedsAccessor ==
    phase \in {"methods", "done"} =>
        \A i \in DOMAIN cls.fields :
            LET f == cls.fields[i]
                r == out[FieldPos(i)]
            IN /\ f.access = "ro" =>
                    (r.call = "readonly_property" <=> (f.getter # None /\ f.setter = None))
               /\ f.access = "wo" =>
                    (r.call = "writeonly_property" <=> (f.setter # None /\ f.getter = None))

(***************************************************************************)
(* The command-line entry points that generate artifacts: the main block   *)
(* of rosetta_idl_parser.py (parse_file, validate, write_rosetta_bindings),*)
(* RosettaILD.cmd_generate of rosetta_ild.py and main of rosetta_idl.py    *)
(* (parse, JSBindingGenerator.generate_all).  A file of the output         *)
(* directory is a record: its name, whether its text is complete, and the  *)
(* run that wrote it (0: an earlier run, 1: this run).                     *)
(***************************************************************************)
\* lines of the DSL texts the entry point of rosetta_ild.py reads
MaxDriverLines == 4

\* two functions named f
DuplicateFunctionDoc ==
    [EmptyDoc EXCEPT !.functions = <<[name |-> Some("f"), parameters |-> <<>>],
                                     [name |-> Some("f"), parameters |-> <<>>]>>]

\* a class entry without name
NamelessClassDoc == [EmptyDoc EXCEPT !.classes = <<ClassDict(None, PlainShape)>>]

DriverFiles ==
    CallFiles \cup {LoadedFile(DuplicateFunctionDoc), LoadedFile(NamelessClassDoc), EmptyFile}

DriverLinePool ==
    { KwClass \o <<" ", "A", " ", "{">>,
      KwClass \o <<" ", "B", " ", "{">>,
      KwClass \o <<" ", "{">>,
      <<"}">> }

\* idl/idl_parser.py, IDLParser.parse_dict: no diagnostics and no checks; a
\* class or function entry without name raises KeyError
DescriptionFromDict(data) ==
    IF \E i \in DOMAIN data.classes : data.classes[i].name = None
    THEN Raised(KeyError("name"))
    ELSE IF \E i \in DOMAIN data.functions : data.functions[i].name = None
    THEN Raised(KeyError("name"))
    ELSE Built([module |-> IF data.module = None THEN "module"
                           ELSE IF data.module[1].name = None THEN "module"
                           ELSE data.module[1].name[1],
                classes |-> [i \in DOMAIN data.classes |->
                                [name |-> data.classes[i].name[1],
                                 cpp_class |-> data.classes[i].cpp_class]],
                functions |-> [i \in DOMAIN data.functions |->
                                  [name |-> data.functions[i].name[1]]],
                converters |-> <<>>,
                utilities |-> [version_info |-> TRUE, list_classes |-> TRUE,
                               type_inspection |-> TRUE]])

\* the artifact files of an entry point, in the order they are written
Artifacts(d, module) ==
    CASE d = "rosetta_idl_parser" -> <<module \o "_registration.cxx">>
      [] d = "rosetta_ild" -> <<"binding.cxx", "binding.gyp", "package.json", "index.js", "test.js">>
      [] OTHER -> <<"binding.cxx", "binding.gyp", "package.json", "test.js">>

\* the module name of the description that is generated from
ModuleName == IF driver = "rosetta_ild" THEN doc.module.name ELSE idl[1].module

\* open(name, 'w') and the writes on it: the file replaces one of that name
WriteFileTo(dir, name, complete) ==
    {f \in dir : f.name # name} \cup {[name |-> name, complete |-> complete, run |-> 1]}

\* what an earlier run of the entry point left for the module geom
StaleDir(d) ==
    {[name |-> Artifacts(d, "geom")[k], complete |-> TRUE, run |-> 0] :
        k \in DOMAIN Artifacts(d, "geom")}

InitDrivers ==
    /\ \/ /\ driver \in {"rosetta_idl_parser", "rosetta_idl"}
          /\ file \in DriverFiles
          /\ lines = <<>>
          /\ pc = "none"
          /\ op = "init"
       \/ /\ driver = "rosetta_ild"
          /\ \E n \in 0..MaxDriverLines : \E ls \in [1..n -> DriverLinePool] : lines = ls
          /\ file = LoadedFile(EmptyDoc)
          /\ pc = "top"
          /\ op = "idle"
    /\ output_dir \in {{}, StaleDir(driver)}
    /\ exit_code = None
    /\ errors = <<>>
    /\ warnings = <<>>
    /\ idl = None
    /\ held = None
    /\ ret = None
    /\ calls = 0
    /\ current_line = 0
    /\ doc = EmptyILDDocument /\ BlockIdle
    /\ class_def = None
    /\ EmitIdle

\* rosetta_idl_parser.py, main block: parse_file, exit 1 without definition
MainParseFile ==
    /\ driver = "rosetta_idl_parser"
    /\ op = "init"
    /\ \E r \in {ParseFileResult(file, errors, warnings)} :
          /\ idl' = r.idl
          /\ held' = r.idl
          /\ errors' = r.errors
          /\ warnings' = r.warnings
          /\ exit_code' = IF r.idl = None THEN Some(1) ELSE None
    /\ op' = "parse_file"
    /\ UNCHANGED <<file, ret, calls, driver, output_dir, ildVars, emitVars, blockVars>>

\* rosetta_idl_parser.py, main block: validate, exit 1 when it fails, exit 0
\* with --validate-only, else write_rosetta_bindings starts
MainValidate ==
    /\ driver = "rosetta_idl_parser"
    /\ op = "parse_file"
    /\ exit_code = None
    /\ \E validate_only \in BOOLEAN :
         \E r \in {ValidateResult(idl[1], errors, warnings)} :
            /\ ret' = Some(r.ret)
            /\ errors' = r.errors
            /\ warnings' = r.warnings
            /\ IF ~r.ret THEN exit_code' = Some(1) /\ UNCHANGED <<phase, mi>>
               ELSE IF validate_only THEN exit_code' = Some(0) /\ UNCHANGED <<phase, mi>>
               ELSE /\ phase' = "generate"
                    /\ mi' = 1
                    /\ UNCHANGED exit_code
    /\ op' = "validate"
    /\ UNCHANGED <<file, idl, held, calls, driver, output_dir, cls, registered_methods, out,
                   ildVars, blockVars>>

\* rosetta_ild.py, run and cmd_generate: an exception of parse_file gives 1
ILDDriverParseRaised ==
    /\ driver = "rosetta_ild"
    /\ pc = "raised"
    /\ exit_code = None
    /\ exit_code' = Some(1)
    /\ UNCHANGED <<driver, output_dir, idlVars, ildVars, emitVars, blockVars>>

\* rosetta_ild.py, cmd_generate: the document is parsed; generate_all starts
\* for the target javascript, the other targets give 1
ILDDriverGenerate ==
    /\ driver = "rosetta_ild"
    /\ pc = "done"
    /\ phase = "idle"
    /\ exit_code = None
    /\ \E target \in {"javascript", "python"} :
          IF target = "javascript"
          THEN /\ phase' = "generate"
               /\ mi' = 1
               /\ UNCHANGED exit_code
          ELSE exit_code' = Some(1) /\ UNCHANGED <<phase, mi>>
    /\ UNCHANGED <<driver, output_dir, cls, registered_methods, out, idlVars, ildVars, blockVars>>

\* rosetta_idl.py, main: a missing input file gives 1, an exception of
\* parse_file gives 1, --dry-run gives 0; generate_all starts for javascript
IDLDriverParse ==
    /\ driver = "rosetta_idl"
    /\ op = "init"
    /\ \E dry_run \in BOOLEAN, lang \in {"js", "py"} :
         \E r \in {IF ~file.exists \/ ~file.yaml_ok \/ file.empty
                   THEN Raised("parse_file") ELSE DescriptionFromDict(file.data)} :
            IF r.raised
            THEN exit_code' = Some(1) /\ UNCHANGED <<idl, phase, mi>>
            ELSE /\ idl' = r.val
                 /\ IF dry_run THEN exit_code' = Some(0) /\ UNCHANGED <<phase, mi>>
                    ELSE IF lang = "js"
                    THEN phase' = "generate" /\ mi' = 1 /\ UNCHANGED exit_code
                    ELSE phase' = "done" /\ UNCHANGED <<mi, exit_code>>
    /\ op' = "parse_file"
    /\ UNCHANGED <<file, errors, warnings, held, ret, calls, driver, output_dir,
                   cls, registered_methods, out, ildVars, blockVars>>

\* write_rosetta_bindings / generate_all: the next artifact file is written
WriteArtifact ==
    /\ phase = "generate"
    /\ mi <= Len(Artifacts(driver, ModuleName))
    /\ output_dir' = WriteFileTo(output_dir, Artifacts(driver, ModuleName)[mi], TRUE)
    /\ mi' = mi + 1
    /\ UNCHANGED <<driver, exit_code, cls, phase, registered_methods, out,
                   idlVars, ildVars, blockVars>>

\* write_rosetta_bindings / generate_all: rendering or writing the next
\* artifact file raises: the file was not opened, or it was opened and holds
\* what was written before the exception; the entry point gives 1
WriteArtifactFails ==
    /\ phase = "generate"
    /\ mi <= Len(Artifacts(driver, ModuleName))
    /\ \E opened \in BOOLEAN :
          output_dir' = IF opened
                        THEN WriteFileTo(output_dir, Artifacts(driver, ModuleName)[mi], FALSE)
                        ELSE output_dir
    /\ phase' = "failed"
    /\ exit_code' = Some(1)
    /\ UNCHANGED <<driver, cls, mi, registered_methods, out, idlVars, ildVars, blockVars>>

\* every artifact file is written
GenerateDone ==
    /\ phase = "generate"
    /\ mi > Len(Artifacts(driver, ModuleName))
    /\ phase' = "done"
    /\ exit_code' = Some(0)
    /\ UNCHANGED <<driver, output_dir, cls, mi, registered_methods, out,
                   idlVars, ildVars, blockVars>>

NextDrivers ==
    \/ MainParseFile
    \/ MainValidate
    \/ ILDParseClassOpen
    \/ ILDSkipLine
    \/ ILDReturn
    \/ ILDClassEnd
    \/ ILDClassClose
    \/ ILDClassSkip
    \/ ILDDriverParseRaised
    \/ ILDDriverGenerate
    \/ IDLDriverParse
    \/ WriteArtifact
    \/ WriteArtifactFails
    \/ GenerateDone

SpecDrivers == InitDrivers /\ [][NextDrivers]_vars

(***************************************************************************)
(* Properties of the binding text of the JavaScript generators.            *)
(***************************************************************************)
\* the toggles as the description declares them: the names listed in the
\* utilities block of the DSL text, the flags of the structured document
TypeInspectionOn ==
    IF idl = None THEN \E i \in DOMAIN lines : lines[i] = UtilInspectType
    ELSE idl[1].utilities.type_inspection

ListClassesOn ==
    IF idl = None THEN \E i \in DOMAIN lines : lines[i] = UtilListClasses
    ELSE idl[1].utilities.list_classes

VersionInfoOn ==
    IF idl = None THEN \E i \in DOMAIN lines : lines[i] = UtilVersionInfo
    ELSE idl[1].utilities.version_info

TogglesOn ==
    (IF TypeInspectionOn THEN 1 ELSE 0) + (IF ListClassesOn THEN 1 ELSE 0)
        + (IF VersionInfoOn THEN 1 ELSE 0)

\* the lines that open a helper block in the binding text
InspectLine == "    auto inspect_type = [](const Napi::CallbackInfo &info) -> Napi::Value {"

AddUtilitiesLine == "    gen.add_utilities();"

InspectBlockWritten == \E i \in DOMAIN out : out[i] = InspectLine

AddUtilitiesWritten == \E i \in DOMAIN out : out[i] = AddUtilitiesLine

UtilityBlocksWritten ==
    Cardinality({i \in DOMAIN out : out[i] \in {InspectLine, AddUtilitiesLine}})

\* C21: the helper code of the binding text is gated by the utilities toggles
\* only, one block per toggle: the type inspection block is written iff its
\* toggle is on, as many helper blocks are written as toggles are on, and with
\* every toggle off no helper code (such as gen.add_utilities()) is written.
C21_UtilitiesGatedByToggles ==
    phase = "written" =>
        /\ InspectBlockWritten <=> TypeInspectionOn
        /\ UtilityBlocksWritten = TogglesOn
        /\ TogglesOn = 0 => (~InspectBlockWritten /\ ~AddUtilitiesWritten)

\* ild/js_generator.py: the type inspection block follows its name in the
\* utilities block; gen.add_utilities() is written for every description
C21_ILDAlwaysAddsUtilities ==
    (phase = "written" /\ idl = None) =>
        /\ InspectBlockWritten <=> TypeInspectionOn
        /\ AddUtilitiesWritten

\* idl/js_generator.py: the type inspection block follows its toggle;
\* gen.add_utilities() is the one block of list_classes and version_info
C21_IDLSharedUtilitiesBlock ==
    (phase = "written" /\ idl # None) =>
        /\ InspectBlockWritten <=> TypeInspectionOn
        /\ AddUtilitiesWritten <=> (ListClassesOn \/ VersionInfoOn)

\* the converter lines of the DSL text that the generator has a call with one
\* template argument for
SimpleConverterLines ==
    {i \in DOMAIN lines : HasChar(lines[i], "<") /\ ~HasChar(lines[i], ",")
                            /\ (Head(lines[i]) = "v" \/ Head(lines[i]) = "o")}

\* the call of a vector<T> or optional<T> converter line
SimpleConverterCall(c) ==
    LET lt == CHOOSE k \in DOMAIN c : c[k] = "<" /\ \A j \in 1..(k - 1) : c[j] # "<"
    IN "    register_" \o Str(SubSeq(c, 1, lt - 1)) \o "_converter<"
          \o Str(SubSeq(c, lt + 1, Len(c) - 1)) \o ">(gen);"

\* where a line stands in the binding text
FirstAt(l) == CHOOSE k \in DOMAIN out : out[k] = l /\ \A j \in 1..(k - 1) : out[j] # l

\* C22: the converters of a description are written in the order they are
\* declared in: a converter declared before another has its call before the
\* other's call in the binding text.
C22_ConvertersInDeclarationOrder ==
    (phase \in {"end", "written"} /\ idl = None) =>
        \A i, j \in SimpleConverterLines :
            (i < j /\ lines[i] # lines[j]) =>
                /\ \E k \in DOMAIN out : out[k] = SimpleConverterCall(lines[i])
                /\ \E k \in DOMAIN out : out[k] = SimpleConverterCall(lines[j])
                /\ FirstAt(SimpleConverterCall(lines[i])) < FirstAt(SimpleConverterCall(lines[j]))

\* ild/js_generator.py writes the calls in the order of the converter texts,
\* whatever the order of declaration
C22_ConvertersInTextOrder ==
    (phase \in {"end", "written"} /\ idl = None) =>
        \A i, j \in SimpleConverterLines :
            (Head(lines[i]) = "o" /\ Head(lines[j]) = "v") =>
                FirstAt(SimpleConverterCall(lines[i])) < FirstAt(SimpleConverterCall(lines[j]))

\* idl/js_generator.py writes one line per converter, in declaration order
C22_IDLConvertersInDeclarationOrder ==
    (phase \in {"end", "written"} /\ idl # None) =>
        \A j \in DOMAIN idl[1].converters :
            out[j] \in SeqToSet(IDLConverterRegistration(idl[1].converters[j]))

(***************************************************************************)
(* Properties of the entry points and of the files they write.             *)
(***************************************************************************)
\* the files of the output directory that this run wrote
WrittenByRun == {f \in output_dir : f.run = 1}

\* C23: no partial artifacts on failure: after a generation run that failed
\* at any step the output directory holds no file written by that run,
\* neither a partly written file nor a part of the artifact files.
C23_NoArtifactsOnFailure ==
    phase = "failed" => WrittenByRun = {}

\* after a failure the files written before it stay: the artifact files
\* before the failing one are complete, the failing one is absent, untouched
\* or partly written, and no later one is written
C23_EarlierArtifactsStay ==
    phase = "failed" =>
        LET arts == Artifacts(driver, ModuleName)
        IN /\ {f.name : f \in {g \in WrittenByRun : g.complete}} = {arts[k] : k \in 1..(mi - 1)}
           /\ {f.name : f \in {g \in WrittenByRun : ~g.complete}} \subseteq {arts[mi]}

\* a failure after the first artifact file of a run with several
FailedAfterFirstArtifact ==
    /\ phase = "failed"
    /\ mi > 1
    /\ \E f \in WrittenByRun : f.complete

\* two classes or two functions of the description carry one name
DuplicateNamesDeclared ==
    IF driver = "rosetta_ild"
    THEN \E i, j \in DOMAIN doc.classes : i # j /\ doc.classes[i].name = doc.classes[j].name
    ELSE /\ file.exists /\ file.yaml_ok /\ ~file.empty
         /\ \/ \E i, j \in DOMAIN file.data.classes :
                  /\ i # j
                  /\ file.data.classes[i].name # None
                  /\ file.data.classes[i].name = file.data.classes[j].name
            \/ \E i, j \in DOMAIN file.data.functions :
                  /\ i # j
                  /\ file.data.functions[i].name # None
                  /\ file.data.functions[i].name = file.data.functions[j].name

\* C24: semantic errors block the generation in every entry point: no
\* artifact file is written for a description with duplicate class names or
\* duplicate function names, and writing starts only after parsing and
\* validation have both finished without error.
C24_SemanticErrorsBlockGeneration ==
    /\ DuplicateNamesDeclared => WrittenByRun = {}
    /\ WrittenByRun # {} => (ret = Some(TRUE) /\ errors = <<>>)

\* the main block of rosetta_idl_parser.py writes only after validate said
\* True, never for duplicate names
C24_MainBlockValidatesFirst ==
    driver = "rosetta_idl_parser" =>
        /\ DuplicateNamesDeclared => (WrittenByRun = {} /\ phase = "idle")
        /\ phase # "idle" => (ret = Some(TRUE) /\ errors = <<>>)

\* the main block of rosetta_idl_parser.py still generates a description that
\* yields warnings only
WarningsOnlyGenerated ==
    /\ driver = "rosetta_idl_parser"
    /\ warnings # <<>>
    /\ phase = "done"
    /\ exit_code = Some(0)
    /\ \E f \in WrittenByRun : f.complete

\* rosetta_ild.py and rosetta_idl.py never validate: no error is recorded and
\* every description that parses is generated from
C24_JSDriversDoNotValidate ==
    driver \in {"rosetta_ild", "rosetta_idl"} => (ret = None /\ errors = <<>>)

\* an entry point wrote every artifact file for a description with duplicate
\* names
DuplicatesGenerated ==
    /\ DuplicateNamesDeclared
    /\ phase = "done"
    /\ exit_code = Some(0)
    /\ WrittenByRun # {}

====
